---- MODULE Spec2Model ----
(***************************************************************************)
(* Model of the signal-trading bot: the control loop of main.py, its two   *)
(* background threads (push listener, pending-entry monitor), the signal   *)
(* parsers' content hash and the state store of state.py.                  *)
(*                                                                         *)
(* trade_engine.py, bybit_v5.py and discord_reader.py are not part of the  *)
(* sources; the operations of TradeEngine that main.py calls are modelled  *)
(* from the design document (section 4.4) and are marked as such.          *)
(***************************************************************************)
EXTENDS Integers, Sequences, FiniteSets, TLC

\* ------------------------------------------------------------------ bounds
MaxTrades == 1            \* trades under management in the lifecycle model

\* ------------------------------------------------------- program constants
MAX_SL_DISTANCE_PCT == 4  \* config.py: MAX_SL_DISTANCE_PCT (0 disables)
CAP_SL_DISTANCE_PCT == 0  \* config.py: CAP_SL_DISTANCE_PCT (0 disables)

Trades == 1..MaxTrades
Sides == {"Buy", "Sell"}
Prices == {95, 100, 105}          \* price levels the exchange reports
Trigger == 100                    \* entry trigger of every modelled signal
NoPeak(side) == IF side = "Buy" THEN 0 ELSE 1000   \* tr.get("peak_price_seen", 0 / inf)
Tp1Of(side) == IF side = "Buy" THEN 105 ELSE 95    \* first take-profit, favorable side
InitialSl(side) == IF side = "Buy" THEN 98 ELSE 102
Terminal == {"cancelled", "cancelled_past_tp", "closed"}
Active == {"pending", "open"}

\* Texts the feed can show for a trade's message: unchanged, a cancel marker,
\* a stop-loss within the hard cap, a stop-loss beyond the hard cap.
FeedTexts == {"same", "TRADE CANCELLED", "sl_near", "sl_far"}

VARIABLES
    open_trades,    \* st["open_trades"]: trade id -> trade dict
    position,       \* exchange: trade id -> TRUE when its symbol has a position
    entry_live,     \* exchange: trade id -> TRUE while the entry order rests
    live_stop,      \* exchange: trade id -> price of the live stop order (0 = none)
    last_price,     \* exchange: trade id -> latest price of the trade's symbol
    feed,           \* feed: trade id -> current text of the trade's message
    events,         \* push stream: execution events not yet delivered
    n_post,         \* trade id -> number of post-entry order placements so far
    main_pc,        \* control loop: position inside the iteration
    main_tr,        \* control loop: trade of the running loop body (0 = none)
    active_trades,  \* check_signal_updates: trades still to visit (snapshot)
    upd_txt,        \* check_signal_updates: text fetched for main_tr
    mon_pc,         \* pending-entry monitor: position
    mon_pending,    \* pending-entry monitor: trades still to visit (snapshot)
    mon_tr,         \* pending-entry monitor: trade being handled (0 = none)
    last_step,      \* the operation that made the last step, and its trade
    entry_cancel,   \* trade id -> outcome of the entry cancel of its last update or monitor step
    parser_version, \* SIGNAL_PARSER_VERSION of the run
    sig_a, sig_b,   \* two signals returned by the selected parser
    hash_a, hash_b, \* their signal_hash values ("" before they are computed)
    hash_pc,        \* "start" before, "done" after the hashes are computed
    fs_dir,         \* file system: file name -> inode (0 = no such file)
    fs_data,        \* file system: inode -> content, a sequence of chunks
    sv_pc,          \* save_state per thread: "idle", "open", "written"
    sv_fd,          \* save_state per thread: inode of the open temp file
    sv_off,         \* save_state per thread: chunks written so far
    sv_doc,         \* save_state per thread: the document being written
    next_doc,       \* number of the next document version
    crashed,        \* the process has stopped
    st_open_trades, \* intake: st["open_trades"], trade id -> trade
    daily_counts,   \* intake: st["daily_counts"], day -> entries placed
    orders_of,      \* intake: entry orders sent to the exchange, per signal hash
    seen_signal_hashes, \* intake: st["seen_signal_hashes"]
    seen,           \* intake: the local set `seen` of the last ingestion
    seen_before,    \* intake: st["seen_signal_hashes"] when that ingestion began
    batch_signals,  \* intake: the local list batch_signals
    batch_all,      \* intake: batch_signals before the selection
    batch_i,        \* intake: position of the execute loop in batch_signals
    exec_id,        \* intake: trade id whose entry order has just been placed
    fill_todo,      \* intake: trades a fill-check loop has still to visit
    fill_cur,       \* intake: trade whose position query is in flight
    exch_pos,       \* intake: symbol -> the exchange holds a position
    entry_filled,   \* intake: ids of the trades whose entry order the exchange has filled
    now,            \* intake: int(time.time())
    loop_pc,        \* intake: position of the control loop in its cycle
    dirty,          \* intake: this iteration of the control loop has changed st
    dca_trade,      \* scale-in update: the trade the update check is visiting
    dca_feed,       \* scale-in update: DCA levels in the trade's feed message
    dca_txt,        \* scale-in update: DCA levels in the text that was fetched
    dca_orders,     \* scale-in update: levels with a resting DCA order
    dca_pc,         \* scale-in update: position of the update check
    sc_batch,       \* batch selection: the batch with the market each signal meets
    sc_scored,      \* batch selection: result of score_signals_batch
    sc_best,        \* batch selection: result of select_best_signals
    sc_exec,        \* batch selection: signals handed to the execute loop
    sc_pc,          \* batch selection: position in main.py 507-540
    msgs_sorted,    \* staleness: the fetched messages, by id
    msg_i,          \* staleness: position of the ingestion loop in msgs_sorted
    msg_now,        \* staleness: time.time()
    msg_age,        \* staleness: message id -> its age when the loop came to it (-1 before)
    msg_batch,      \* staleness: batch_signals, message ids of the accepted signals
    msg_placed,     \* staleness: message ids whose signal got an entry order
    msg_pc,         \* staleness: position in main.py 459-579
    store_file,     \* state store: what is at STATE_FILE
    store_st,       \* state store: the aggregate st in memory
    store_docs,     \* state store: the documents save_state has written so far
    store_raised,   \* state store: load_state has raised
    store_pc,       \* state store: "start", "mem", "loaded", "saved"
    tp_env,         \* configuration: the numbers of the TP_SPLITS setting
    TP_SPLITS,      \* configuration: config.TP_SPLITS, a list of floats
    cfg_pc,         \* configuration: "env" before config.py has run, "loaded" after
    ws_pc,          \* listener thread: "subscribed", "sleep", "dead"
    ws_err,         \* listener thread: ws_err["err"]
    ws_runs,        \* listener thread: calls of run_private_ws so far
    ws_handled,     \* listener thread: execution events handed to on_execution
    ws_warned,      \* listener thread: handler errors logged
    p_msg,          \* v2 parser: what the author of the message put into it
    p_text,         \* v2 parser: the message text, line by line
    p_out,          \* v2 parser: what parse_signal returned
    p_pc,           \* v2 parser: "text" before, "parsed" after the call
    ta_swings,      \* trend analysis: the swing points detected in the candles
    ta_atr,         \* trend analysis: the volatility unit of the candles
    ta_out,         \* trend analysis: direction, leg, pullback and reversal index
    ta_pc,          \* trend analysis: "swings" before, "analyzed" after the call
    slu_trade,      \* stop update: the stored trade the update is checked for
    slu_before,     \* stop update: the trade as it was before the check
    slu_new_sl,     \* stop update: sig.get("sl_price") of the parsed feed text
    slu_cap,        \* stop update: the configured CAP_SL_DISTANCE_PCT
    slu_exch,       \* stop update: live stop and entry order at the exchange
    slu_pc,         \* stop update: "parsed" before, "done" after the block
    fd_msgs,        \* feed cycle: msgs_sorted, each message with its id and signal
    fd_st,          \* feed cycle: st (cursor, dedupe list, trades, daily counts)
    fd_batch,       \* feed cycle: batch_signals, (signal, message id) tuples
    fd_max_seen,    \* feed cycle: the local max_seen
    fd_origin,      \* feed cycle: batch_signals as the ingestion loop left it
    fd_chosen,      \* feed cycle: the signals handed to the execute loop
    fd_attempted,   \* feed cycle: signals place_conditional_entry was called for
    fd_now,         \* feed cycle: int(time.time())
    fd_pc           \* feed cycle: position in main.py 440-581

life_vars == <<open_trades, position, entry_live, live_stop, last_price, feed, events,
               n_post, main_pc, main_tr, active_trades, upd_txt, mon_pc, mon_pending,
               mon_tr, last_step, entry_cancel>>
hash_vars == <<parser_version, sig_a, sig_b, hash_a, hash_b, hash_pc>>

save_vars == <<fs_dir, fs_data, sv_pc, sv_fd, sv_off, sv_doc, next_doc, crashed>>

book_vars == <<st_open_trades, daily_counts, orders_of>>

intake_vars == <<seen_signal_hashes, seen, seen_before, batch_signals, batch_all, batch_i, exec_id>>

fill_vars == <<fill_todo, fill_cur>>

entry_vars == <<book_vars, intake_vars, fill_vars, exch_pos, entry_filled, now, loop_pc,
               dirty>>

update_vars == <<dca_trade, dca_feed, dca_txt, dca_orders, dca_pc>>

score_vars == <<sc_batch, sc_scored, sc_best, sc_exec, sc_pc>>

stale_vars == <<msgs_sorted, msg_i, msg_now, msg_age, msg_batch, msg_placed, msg_pc>>

store_vars == <<store_file, store_st, store_docs, store_raised, store_pc>>

split_vars == <<tp_env, TP_SPLITS, cfg_pc>>

ws_vars == <<ws_pc, ws_err, ws_runs, ws_handled, ws_warned>>

parse_vars == <<p_msg, p_text, p_out, p_pc>>

legs_vars == <<ta_swings, ta_atr, ta_out, ta_pc>>

slu_vars == <<slu_trade, slu_before, slu_new_sl, slu_cap, slu_exch, slu_pc>>

feed_vars == <<fd_msgs, fd_st, fd_batch, fd_max_seen, fd_origin, fd_chosen, fd_attempted,
               fd_now, fd_pc>>

late_vars == <<legs_vars, slu_vars, feed_vars>>

aux_vars == <<stale_vars, store_vars, split_vars, ws_vars, parse_vars, late_vars>>

other_vars == <<update_vars, score_vars, aux_vars>>

vars == <<life_vars, hash_vars, save_vars, entry_vars, other_vars>>

exchange_vars == <<position, entry_live, live_stop, last_price>>
main_vars == <<main_pc, main_tr, active_trades, upd_txt>>
mon_vars == <<mon_pc, mon_pending, mon_tr>>

\* The trade dict main.py stores for an accepted signal (lines 551-572).
NewTrade(t, side) ==
    [ id |-> t, order_side |-> side, trigger |-> Trigger,
      tp_prices |-> <<Tp1Of(side)>>, sl_price |-> InitialSl(side),
      status |-> "pending", post_orders_placed |-> FALSE,
      peak_price_seen |-> NoPeak(side), exit_reason |-> "none",
      sl_moved_to_be |-> FALSE, closed_ts |-> 0 ]

\* last_step records the operations the properties below speak about; every
\* other step clears it.
MarkedOps == {"updates_apply", "poll_query", "poll_place", "mon_cancel", "on_execution"}

\* The steps of main.py that may call engine.cancel_entry for a trade; they
\* record the outcome in entry_cancel, every other step leaves it alone.
CancelOps == {"updates_apply", "mon_cancel"}

Step(op, t) ==
    /\ last_step' = IF op \in MarkedOps THEN [op |-> op, tr |-> t]
                                        ELSE [op |-> "other", tr |-> 0]
    /\ IF op \in CancelOps THEN TRUE ELSE UNCHANGED entry_cancel
    /\ UNCHANGED <<hash_vars, save_vars, entry_vars, other_vars>>

Min(S) == CHOOSE x \in S : \A y \in S : x <= y

\* ------------------------------------------------------- trade engine (design)
\* TradeEngine is not part of the sources. Its operations are modelled from the
\* design document: each is serialized per trade (section 5) and is a no-op on
\* a trade that is not in the expected state (section 7, d).

SetTrade(t, tr) == open_trades' = [open_trades EXCEPT ![t] = tr]

\* engine.place_post_entry_orders(tr): places the take-profit legs and the
\* initial stop for an open trade and records that on the trade.
PlacePostEntryOrders(t) ==
    IF open_trades[t].status = "open"
    THEN /\ SetTrade(t, [open_trades[t] EXCEPT !.post_orders_placed = TRUE])
         /\ n_post' = [n_post EXCEPT ![t] = @ + 1]
         /\ live_stop' = [live_stop EXCEPT ![t] = open_trades[t].sl_price]
    ELSE UNCHANGED <<open_trades, n_post, live_stop>>

\* engine.on_execution(ev) for an entry fill: pending -> open, fill recorded,
\* staged exit orders placed unless the trade already has them.
OnEntryFill(t) ==
    IF open_trades[t].status = "pending"
    THEN /\ SetTrade(t, [open_trades[t] EXCEPT !.status = "open",
                                               !.post_orders_placed = TRUE])
         /\ n_post' = [n_post EXCEPT ![t] =
                          IF open_trades[t].post_orders_placed THEN @ ELSE @ + 1]
         /\ live_stop' = [live_stop EXCEPT ![t] =
                          IF open_trades[t].post_orders_placed THEN @
                          ELSE open_trades[t].sl_price]
    ELSE UNCHANGED <<open_trades, n_post, live_stop>>

\* engine.on_execution(ev) for the fill that closes the position (last
\* take-profit leg or stop): open -> closed.
OnExitFill(t) ==
    /\ IF open_trades[t].status = "open"
       THEN SetTrade(t, [open_trades[t] EXCEPT !.status = "closed",
                                               !.exit_reason = "exit_fill"])
       ELSE UNCHANGED open_trades
    /\ UNCHANGED <<n_post, live_stop>>

\* engine.cancel_expired_entries(): pending trades whose expiration window has
\* passed become cancelled; cancelling the entry order is best-effort.
CancelExpiredEntries(expired, cancelled_ok) ==
    /\ open_trades' = [t \in Trades |->
          IF t \in expired /\ open_trades[t].status = "pending"
          THEN [open_trades[t] EXCEPT !.status = "cancelled", !.exit_reason = "expired"]
          ELSE open_trades[t]]
    /\ entry_live' = [t \in Trades |->
          IF t \in expired /\ t \in cancelled_ok /\ open_trades[t].status = "pending"
          THEN FALSE ELSE entry_live[t]]

\* ------------------------------------------------------------ push listener
\* ws_loop / on_execution (main.py 288-311): every execution event of the
\* private stream is handed to engine.on_execution on the listener thread.
on_execution ==
    \E ev \in events :
        /\ events' = events \ {ev}
        /\ IF ev[1] = "entry" THEN OnEntryFill(ev[2]) ELSE OnExitFill(ev[2])
        /\ Step("on_execution", ev[2])
        /\ UNCHANGED <<position, entry_live, last_price, feed, main_vars, mon_vars>>

\* ----------------------------------------------------------- environment
\* The exchange fills a resting entry order and pushes the execution event.
ExchangeFillEntry ==
    \E t \in Trades :
        /\ entry_live[t]
        /\ entry_live' = [entry_live EXCEPT ![t] = FALSE]
        /\ position' = [position EXCEPT ![t] = TRUE]
        /\ events' = events \cup {<<"entry", t>>}
        /\ Step("exchange_fill", t)
        /\ UNCHANGED <<open_trades, live_stop, last_price, feed, n_post, main_vars, mon_vars>>

\* The exchange closes a position through its exit orders (or a manual close).
ExchangeFillExit ==
    \E t \in Trades :
        /\ position[t]
        /\ position' = [position EXCEPT ![t] = FALSE]
        /\ live_stop' = [live_stop EXCEPT ![t] = 0]
        /\ events' = events \cup {<<"exit", t>>}
        /\ Step("exchange_exit", t)
        /\ UNCHANGED <<open_trades, entry_live, last_price, feed, n_post, main_vars, mon_vars>>

PriceMove ==
    \E t \in Trades, p \in Prices :
        /\ open_trades[t].status = "pending"
        /\ last_price[t] # p
        /\ last_price' = [last_price EXCEPT ![t] = p]
        /\ Step("price", t)
        /\ UNCHANGED <<open_trades, position, entry_live, live_stop, feed, events,
                       n_post, main_vars, mon_vars>>

\* The signal author edits the message a trade was read from.
FeedEdit ==
    \E t \in Trades, txt \in FeedTexts :
        /\ open_trades[t].status \in Active
        /\ feed[t] # txt
        /\ feed' = [feed EXCEPT ![t] = txt]
        /\ Step("feed_edit", t)
        /\ UNCHANGED <<open_trades, exchange_vars, events, n_post, main_vars, mon_vars>>

\* ------------------------------------------------- signal parser, update call
\* Parameters that parse_signal_update declares (signal_parser.py 158,
\* signal_parser_v2.py 158, signal_parser_v3.py 186: text only) and the keyword
\* main.py passes besides the text (line 186).
ParseUpdateParams == {"text"}
ParseUpdateKeywords == {"symbol"}

\* A call with a keyword the function does not declare raises TypeError.
ParseUpdateRaises == ~(ParseUpdateKeywords \subseteq ParseUpdateParams)

\* sig["sl_price"] of the parsed update for each modelled text.
SlOfText(txt, side) ==
    CASE txt = "sl_near" -> (IF side = "Buy" THEN 97 ELSE 103)
      [] txt = "sl_far"  -> (IF side = "Buy" THEN 90 ELSE 110)
      [] OTHER           -> InitialSl(side)

Abs(x) == IF x < 0 THEN -x ELSE x

\* sl_distance > pct, with sl_distance = abs(new_sl - entry) / entry * 100
\* (main.py 204), compared without the division.
SlDistanceOver(new_sl, entry, pct) == Abs(new_sl - entry) * 100 > pct * entry

\* Mutant: every edited text counts as a cancellation.
IsCancelText_AnyEdit(txt) == txt # "same"

\* "TRADE CANCELLED" in txt.upper() or "CLOSED WITHOUT ENTRY" in txt.upper()
IsCancelText(txt) == txt = "TRADE CANCELLED"

\* main.py 219-222: the stop is too far and the trade is already open.
SlTooFarOpen(tr, new_sl) == [tr EXCEPT !.sl_price = new_sl]

\* main.py 209-218: the stop is too far and the entry has not filled.
SlTooFarPending(tr) ==
    [tr EXCEPT !.status = "cancelled", !.exit_reason = "sl_too_far", !.closed_ts = 1]

\* main.py 225-234: the soft cap clamps the stop toward entry.
\* tr.get(key): the value stored under the key, None when the trade has none.
TradeGet(tr, key) == IF key \in DOMAIN tr THEN tr[key] ELSE "None"

\* main.py 225-234 with CAP_SL_DISTANCE_PCT = cap: the side is read with
\* tr.get("side"), the stop goes above entry only when that is "Sell".
SoftCap(tr, new_sl, cap) ==
    IF cap > 0 /\ SlDistanceOver(new_sl, tr.trigger, cap)
    THEN (IF TradeGet(tr, "side") = "Sell"
          THEN (tr.trigger * (100 + cap)) \div 100
          ELSE (tr.trigger * (100 - cap)) \div 100)
    ELSE new_sl

CappedSl(tr, new_sl) == SoftCap(tr, new_sl, CAP_SL_DISTANCE_PCT)

\* The result of a cancel call for the entry order: it returned or it raised.
CancelOutcome(cancel_ok) == IF cancel_ok THEN "ok" ELSE "failed"

\* No cancel of the entry order was attempted for trade t in this step.
NoEntryCancel(t) == entry_cancel' = [entry_cancel EXCEPT ![t] = "none"]

\* main.py 198-242: the stop-loss part of one trade's update, once the text is
\* parsed. cancel_ok: whether the best-effort cancel of the entry order worked.
ApplySlUpdate(t, new_sl, cancel_ok) ==
    LET tr == open_trades[t]
        is_open == tr.status = "open"
    IN  IF new_sl # tr.sl_price /\ ~tr.sl_moved_to_be
        THEN IF MAX_SL_DISTANCE_PCT > 0
                /\ SlDistanceOver(new_sl, tr.trigger, MAX_SL_DISTANCE_PCT)
             THEN IF ~is_open
                  THEN /\ SetTrade(t, SlTooFarPending(tr))
                       /\ entry_live' = [entry_live EXCEPT ![t] = IF cancel_ok THEN FALSE ELSE @]
                       /\ entry_cancel' = [entry_cancel EXCEPT ![t] = CancelOutcome(cancel_ok)]
                       /\ UNCHANGED live_stop
                  ELSE /\ SetTrade(t, SlTooFarOpen(tr, new_sl))
                       /\ NoEntryCancel(t)
                       /\ UNCHANGED <<entry_live, live_stop>>
             ELSE /\ SetTrade(t, [tr EXCEPT !.sl_price = CappedSl(tr, new_sl)])
                  /\ live_stop' = [live_stop EXCEPT ![t] =
                                      IF is_open THEN CappedSl(tr, new_sl) ELSE @]
                  /\ NoEntryCancel(t)
                  /\ UNCHANGED entry_live
        ELSE /\ NoEntryCancel(t)
             /\ UNCHANGED <<open_trades, entry_live, live_stop>>

\* Mutant: the trade is marked cancelled without its exit reason.
ApplyFeedCancel_NoReason(t, cancel_ok) ==
    LET tr == open_trades[t]
    IN  /\ entry_live' = [entry_live EXCEPT ![t] =
                             IF tr.status = "pending" /\ cancel_ok THEN FALSE ELSE @]
        /\ entry_cancel' = [entry_cancel EXCEPT ![t] =
                               IF tr.status = "pending" THEN CancelOutcome(cancel_ok)
                                                        ELSE "none"]
        /\ live_stop' = [live_stop EXCEPT ![t] = IF tr.status = "open" THEN 0 ELSE @]
        /\ SetTrade(t, [tr EXCEPT !.status = "cancelled", !.closed_ts = 1])

\* Mutant: a failed cancel of the entry order ends the handling of the trade.
ApplyFeedCancel_FailureAborts(t, cancel_ok) ==
    LET tr == open_trades[t]
    IN  /\ entry_live' = [entry_live EXCEPT ![t] =
                             IF tr.status = "pending" /\ cancel_ok THEN FALSE ELSE @]
        /\ entry_cancel' = [entry_cancel EXCEPT ![t] =
                               IF tr.status = "pending" THEN CancelOutcome(cancel_ok)
                                                        ELSE "none"]
        /\ IF tr.status = "pending" /\ ~cancel_ok
           THEN UNCHANGED <<open_trades, live_stop>>
           ELSE /\ live_stop' = [live_stop EXCEPT ![t] =
                                    IF tr.status = "open" THEN 0 ELSE @]
                /\ SetTrade(t, [tr EXCEPT !.status = "cancelled",
                                          !.exit_reason = "signal_cancelled",
                                          !.closed_ts = 1])

\* main.py 159-182: the feed announces the trade as cancelled.
ApplyFeedCancel(t, cancel_ok) ==
    LET tr == open_trades[t]
    IN  /\ entry_live' = [entry_live EXCEPT ![t] =
                             IF tr.status = "pending" /\ cancel_ok THEN FALSE ELSE @]
        /\ entry_cancel' = [entry_cancel EXCEPT ![t] =
                               IF tr.status = "pending" THEN CancelOutcome(cancel_ok)
                                                        ELSE "none"]
        /\ live_stop' = [live_stop EXCEPT ![t] = IF tr.status = "open" THEN 0 ELSE @]
        /\ SetTrade(t, [tr EXCEPT !.status = "cancelled",
                                  !.exit_reason = "signal_cancelled",
                                  !.closed_ts = 1])

\* ------------------------------------------------------------ control loop
\* One iteration of the loop of main.py (397-618), as far as it manages the
\* trades that already exist: maintenance, signal updates, entry-fill fallback.

FirstTrade == Min(Trades)
NextTradeOrDone(t) == IF t + 1 \in Trades THEN t + 1 ELSE 0

\* main.py 406: engine.cancel_expired_entries()
MainMaintenance ==
    /\ main_pc = "maint"
    /\ \E expired \in SUBSET {t \in Trades : open_trades[t].status = "pending"},
          ok \in BOOLEAN :
          CancelExpiredEntries(expired, IF ok THEN expired ELSE {})
    /\ main_pc' = "updates"
    /\ Step("maintenance", 0)
    /\ UNCHANGED <<position, live_stop, last_price, feed, events, n_post,
                   main_tr, active_trades, upd_txt, mon_vars>>

\* main.py 415-417 with 130-134: the check is not due yet, or no trade is active.
MainUpdatesSkip ==
    /\ main_pc = "updates"
    /\ main_pc' = "poll"
    /\ main_tr' = FirstTrade
    /\ Step("updates_skip", 0)
    /\ UNCHANGED <<open_trades, exchange_vars, feed, events, n_post,
                   active_trades, upd_txt, mon_vars>>

\* main.py 130-136: the list of trades to visit is built once, up front.
MainUpdatesSnapshot ==
    /\ main_pc = "updates"
    /\ LET act == {t \in Trades : open_trades[t].status \in Active}
       IN  /\ act # {}
           /\ active_trades' = act
    /\ main_pc' = "upd_fetch"
    /\ Step("updates_snapshot", 0)
    /\ UNCHANGED <<open_trades, exchange_vars, feed, events, n_post,
                   main_tr, upd_txt, mon_vars>>

\* main.py 138-155: fetch the message of the next trade of the list; a failed
\* fetch or an empty text skips the trade. After the last trade, line 283.
MainUpdatesFetch ==
    /\ main_pc = "upd_fetch"
    /\ IF active_trades = {}
       THEN /\ main_pc' = "poll"
            /\ main_tr' = FirstTrade
            /\ UNCHANGED <<active_trades, upd_txt>>
       ELSE LET t == Min(active_trades)
            IN  \/ /\ main_pc' = "upd_apply"
                   /\ main_tr' = t
                   /\ upd_txt' = feed[t]
                   /\ UNCHANGED active_trades
                \/ /\ active_trades' = active_trades \ {t}
                   /\ UNCHANGED <<main_pc, main_tr, upd_txt>>
    /\ Step("updates_fetch", 0)
    /\ UNCHANGED <<open_trades, exchange_vars, feed, events, n_post, mon_vars>>

\* main.py 157-280: apply the fetched text to the trade.
MainUpdatesApply ==
    /\ main_pc = "upd_apply"
    /\ LET t == main_tr
       IN  /\ \E cancel_ok \in BOOLEAN :
                 IF IsCancelText(upd_txt)
                 THEN ApplyFeedCancel(t, cancel_ok)
                 ELSE IF ParseUpdateRaises
                      THEN /\ NoEntryCancel(t)
                           /\ UNCHANGED <<open_trades, entry_live, live_stop>>
                      ELSE ApplySlUpdate(t, SlOfText(upd_txt, open_trades[t].order_side),
                                         cancel_ok)
           /\ active_trades' = active_trades \ {t}
           /\ Step("updates_apply", t)
    /\ main_pc' = "upd_fetch"
    /\ main_tr' = 0
    /\ UNCHANGED <<position, last_price, feed, events, n_post, upd_txt, mon_vars>>

\* Mutant: the placed-flag is not consulted.
NeedsPostOrders_NoFlag(tr) == tr.status = "open"

\* main.py 429: the guard of both poll loops before post-entry orders are placed.
NeedsPostOrders(tr) == tr.status = "open" /\ ~tr.post_orders_placed

\* main.py 424-427: the position query answered; a position marks the trade open.
PollFill(tr, has_position) ==
    IF has_position THEN [tr EXCEPT !.status = "open"] ELSE tr

\* main.py 420-421: the loop reaches a trade and reads its status.
MainPollCheck ==
    /\ main_pc = "poll"
    /\ IF main_tr = 0
       THEN /\ main_pc' = "maint"          \* iteration over (save, sleep)
            /\ UNCHANGED main_tr
       ELSE IF open_trades[main_tr].status = "pending"
            THEN main_pc' = "poll_query" /\ UNCHANGED main_tr
            ELSE main_pc' = "poll_post" /\ UNCHANGED main_tr
    /\ Step("poll_check", main_tr)
    /\ UNCHANGED <<open_trades, exchange_vars, feed, events, n_post,
                   active_trades, upd_txt, mon_vars>>

\* main.py 423-428: engine.position_size_avg returns and the status is written.
MainPollQuery ==
    /\ main_pc = "poll_query"
    /\ SetTrade(main_tr, PollFill(open_trades[main_tr], position[main_tr]))
    /\ main_pc' = "poll_post"
    /\ Step("poll_query", main_tr)
    /\ UNCHANGED <<exchange_vars, feed, events, n_post, main_tr,
                   active_trades, upd_txt, mon_vars>>

\* main.py 429: the flag is read ...
MainPollPostCheck ==
    /\ main_pc = "poll_post"
    /\ IF NeedsPostOrders(open_trades[main_tr])
       THEN main_pc' = "poll_place" /\ UNCHANGED main_tr
       ELSE main_pc' = "poll" /\ main_tr' = NextTradeOrDone(main_tr)
    /\ Step("poll_post_check", main_tr)
    /\ UNCHANGED <<open_trades, exchange_vars, feed, events, n_post,
                   active_trades, upd_txt, mon_vars>>

\* main.py 430: ... and engine.place_post_entry_orders(tr) is called.
MainPollPlace ==
    /\ main_pc = "poll_place"
    /\ PlacePostEntryOrders(main_tr)
    /\ main_pc' = "poll"
    /\ main_tr' = NextTradeOrDone(main_tr)
    /\ Step("poll_place", main_tr)
    /\ UNCHANGED <<position, entry_live, last_price, feed, events,
                   active_trades, upd_txt, mon_vars>>

\* ---------------------------------------------------- pending-entry monitor
\* pending_entry_monitor (main.py 314-382), on its own thread.

\* Mutant: the latest price is tracked, whatever it is.
NewPeak_LastPrice(tr, current_price) == current_price

\* main.py 346-355: the tracked peak after a price reading.
NewPeak(tr, current_price) ==
    IF tr.order_side = "Buy"
    THEN (IF current_price > tr.peak_price_seen THEN current_price ELSE tr.peak_price_seen)
    ELSE (IF current_price < tr.peak_price_seen THEN current_price ELSE tr.peak_price_seen)

\* main.py 358-364: has the peak crossed the first take-profit?
ShouldCancel(side, peak, tp1) ==
    \/ side = "Buy" /\ peak >= tp1
    \/ side = "Sell" /\ peak <= tp1

\* main.py 322-328: sleep, then list the pending trades.
MonSnapshot ==
    /\ mon_pc = "sleep"
    /\ mon_pending' = {t \in Trades : open_trades[t].status = "pending"}
    /\ mon_pc' = "price"
    /\ mon_tr' = 0
    /\ Step("mon_snapshot", 0)
    /\ UNCHANGED <<open_trades, exchange_vars, feed, events, n_post, main_vars>>

\* main.py 330-364: next trade of the list: read the price (a failed reading
\* skips the trade), track the peak, decide.
MonPrice ==
    /\ mon_pc = "price"
    /\ IF mon_pending = {}
       THEN /\ mon_pc' = "sleep"
            /\ UNCHANGED <<mon_pending, mon_tr, open_trades>>
       ELSE LET t == Min(mon_pending)
                tr == open_trades[t]
                peak == NewPeak(tr, last_price[t])
            IN  /\ mon_pending' = mon_pending \ {t}
                /\ \/ /\ tr.tp_prices # <<>>
                      /\ SetTrade(t, [tr EXCEPT !.peak_price_seen = peak])
                      /\ IF ShouldCancel(tr.order_side, peak, tr.tp_prices[1])
                         THEN mon_pc' = "cancel" /\ mon_tr' = t
                         ELSE UNCHANGED <<mon_pc, mon_tr>>
                   \/ UNCHANGED <<open_trades, mon_pc, mon_tr>>
    /\ Step("mon_price", 0)
    /\ UNCHANGED <<exchange_vars, feed, events, n_post, main_vars>>

\* main.py 366-375: cancel the entry order (best-effort), mark the trade.
MonCancel ==
    /\ mon_pc = "cancel"
    /\ \E cancel_ok \in BOOLEAN :
          /\ entry_live' = [entry_live EXCEPT ![mon_tr] = IF cancel_ok THEN FALSE ELSE @]
          /\ entry_cancel' = [entry_cancel EXCEPT ![mon_tr] = CancelOutcome(cancel_ok)]
    /\ SetTrade(mon_tr, [open_trades[mon_tr] EXCEPT !.status = "cancelled_past_tp"])
    /\ mon_pc' = "price"
    /\ mon_tr' = 0
    /\ Step("mon_cancel", mon_tr)
    /\ UNCHANGED <<position, live_stop, last_price, feed, events, n_post,
                   mon_pending, main_vars>>

\* ------------------------------------------------------------ specification
\* The trades exist already: each was stored as pending when its signal was
\* accepted (main.py 551-572), with its entry order resting at the exchange.
InitLifeWith(side) ==
    /\ open_trades = [t \in Trades |-> NewTrade(t, side[t])]
    /\ position = [t \in Trades |-> FALSE]
    /\ entry_live = [t \in Trades |-> TRUE]
    /\ live_stop = [t \in Trades |-> 0]
    /\ last_price = [t \in Trades |-> Trigger]
    /\ feed = [t \in Trades |-> "same"]
    /\ events = {}
    /\ n_post = [t \in Trades |-> 0]
    /\ main_pc = "maint"
    /\ main_tr = 0
    /\ active_trades = {}
    /\ upd_txt = "same"
    /\ mon_pc = "sleep"
    /\ mon_pending = {}
    /\ mon_tr = 0
    /\ last_step = [op |-> "other", tr |-> 0]
    /\ entry_cancel = [t \in Trades |-> "none"]

InitLife == \E side \in [Trades -> Sides] : InitLifeWith(side)

\* The same with every trade a long one, for the runs that leave these
\* trades alone.
InitLifeIdle == InitLifeWith([t \in Trades |-> "Buy"])

\* No signal is being hashed.
InitHashIdle ==
    /\ parser_version = "v3"
    /\ sig_a = <<>> /\ sig_b = <<>>
    /\ hash_a = <<>> /\ hash_b = <<>>
    /\ hash_pc = "idle"

\* Threads that call save_state: the control loop (main.py 283, 601) and the
\* pending-entry monitor (main.py 375).
Savers == {"main", "monitor"}

\* No save is running and the state file does not exist yet.
InitSaveIdle ==
    /\ fs_dir = [f \in {"state.json", "state.json.tmp"} |-> 0]
    /\ fs_data = <<>>
    /\ sv_pc = [th \in Savers |-> "idle"]
    /\ sv_fd = [th \in Savers |-> 0]
    /\ sv_off = [th \in Savers |-> 0]
    /\ sv_doc = [th \in Savers |-> <<>>]
    /\ next_doc = 1
    /\ crashed = FALSE

MaxTicks == 1             \* seconds the clock advances in a run of the model

\* Values of int(time.time()): the last second of a UTC day and what follows.
ClockValues == 86399..(86399 + MaxTicks)

\* state.py 7-10: the UTC day of a timestamp.
utc_day_key(ts) == ts \div 86400

\* Symbols of the signals taken in, as tuples of characters.
IntakeSymbols == {<<"A", "U", "S", "D", "T">>, <<"A", "A", "U", "S", "D", "T">>}

\* The dict with no key.
EmptyDict == [k \in {} |-> 0]

\* state.py 12-24: the loaded state with no trade and the given dedupe list,
\* the control loop at the top of its cycle.
InitIntakeWith(hashes) ==
    /\ st_open_trades = EmptyDict
    /\ daily_counts = [d \in {utc_day_key(c) : c \in ClockValues} |-> 0]
    /\ orders_of = EmptyDict
    /\ seen_signal_hashes = hashes
    /\ seen = {}
    /\ seen_before = {}
    /\ batch_signals = <<>>
    /\ batch_all = <<>>
    /\ batch_i = 1
    /\ exec_id = <<>>
    /\ fill_todo = {}
    /\ fill_cur = <<>>
    /\ exch_pos = [s \in IntakeSymbols |-> FALSE]
    /\ entry_filled = {}
    /\ now = 86399
    /\ loop_pc = "maint"
    /\ dirty = FALSE

\* state.py 19-24: the state of a first start.
InitIntake == InitIntakeWith({})

\* No scale-in update is being handled.
InitDcaIdle ==
    /\ dca_trade = <<>>
    /\ dca_feed = <<>>
    /\ dca_txt = <<>>
    /\ dca_orders = {}
    /\ dca_pc = "off"

\* No batch is being selected.
InitScoreIdle ==
    /\ sc_batch = <<>>
    /\ sc_scored = <<>>
    /\ sc_best = <<>>
    /\ sc_exec = <<>>
    /\ sc_pc = "off"

InitStaleIdle ==
    /\ msgs_sorted = <<>>
    /\ msg_i = 1
    /\ msg_now = 1
    /\ msg_age = <<>>
    /\ msg_batch = <<>>
    /\ msg_placed = {}
    /\ msg_pc = "off"

InitStoreIdle ==
    /\ store_file = [kind |-> "missing", text |-> <<>>]
    /\ store_st = [ty |-> "NoneType"]
    /\ store_docs = <<>>
    /\ store_raised = FALSE
    /\ store_pc = "off"

InitSplitsIdle ==
    /\ tp_env = <<>>
    /\ TP_SPLITS = <<>>
    /\ cfg_pc = "off"

InitWsIdle ==
    /\ ws_pc = "off"
    /\ ws_err = "None"
    /\ ws_runs = 0
    /\ ws_handled = 0
    /\ ws_warned = 0

InitParseIdle ==
    /\ p_msg = <<>>
    /\ p_text = <<>>
    /\ p_out = [ok |-> FALSE]
    /\ p_pc = "off"

InitLegsIdle ==
    /\ ta_swings = <<>>
    /\ ta_atr = 0
    /\ ta_out = <<>>
    /\ ta_pc = "off"

InitSluIdle ==
    /\ slu_trade = <<>>
    /\ slu_before = <<>>
    /\ slu_new_sl = 0
    /\ slu_cap = 0
    /\ slu_exch = <<>>
    /\ slu_pc = "off"

InitFeedIdle ==
    /\ fd_msgs = <<>>
    /\ fd_st = <<>>
    /\ fd_batch = <<>>
    /\ fd_max_seen = 0
    /\ fd_origin = <<>>
    /\ fd_chosen = <<>>
    /\ fd_attempted = {}
    /\ fd_now = 0
    /\ fd_pc = "off"

InitLateIdle == InitLegsIdle /\ InitSluIdle /\ InitFeedIdle

InitAuxIdle ==
    /\ InitStaleIdle /\ InitStoreIdle /\ InitSplitsIdle /\ InitWsIdle /\ InitParseIdle
    /\ InitLateIdle

InitOtherIdle == InitDcaIdle /\ InitScoreIdle /\ InitAuxIdle

Init == InitLife /\ InitHashIdle /\ InitSaveIdle /\ InitIntake /\ InitOtherIdle

Next ==
    \/ MainMaintenance
    \/ MainUpdatesSkip
    \/ MainUpdatesSnapshot
    \/ MainUpdatesFetch
    \/ MainUpdatesApply
    \/ MainPollCheck
    \/ MainPollQuery
    \/ MainPollPostCheck
    \/ MainPollPlace
    \/ MonSnapshot
    \/ MonPrice
    \/ MonCancel
    \/ on_execution
    \/ ExchangeFillEntry
    \/ ExchangeFillExit
    \/ PriceMove
    \/ FeedEdit

Spec == Init /\ [][Next]_vars

\* ================================================================ properties

\* C1: post-entry orders (take-profit legs and the initial stop) are placed at
\* most once per trade under every interleaving of the push handler with the
\* control loop's poll, and every placement leaves the placed-flag set.
C1_PostOrdersPlacedOnce ==
    \A t \in Trades :
        /\ n_post[t] <= 1
        /\ (n_post[t] = 1 => open_trades[t].post_orders_placed)

\* C1 witness: the push handler has consumed the entry fill and placed the
\* orders, and the poll has then read the same position for the same trade.
C1_Witness ==
    \E t \in Trades :
        /\ last_step = [op |-> "poll_query", tr |-> t]
        /\ position[t] /\ <<"entry", t>> \notin events
        /\ open_trades[t].status = "open"
        /\ n_post[t] = 1

\* C2: once a trade is cancelled, cancelled_past_tp or closed, no step of any
\* thread changes its status again.
C2_TerminalIsFinal ==
    [][\A t \in Trades :
          open_trades[t].status \in Terminal
              => open_trades'[t].status = open_trades[t].status]_vars

\* C3: a trade that the monitor marked cancelled_past_tp never goes back to
\* pending or open.
C3_PastTpNeverBack ==
    [][\A t \in Trades :
          open_trades[t].status = "cancelled_past_tp"
              => open_trades'[t].status \notin {"pending", "open"}]_vars

\* The signal-update check applies a text showing a stop beyond the hard cap
\* to a trade that is open.
HardCapStepOnOpen ==
    /\ main_pc = "upd_apply" /\ main_pc' = "upd_fetch"
    /\ MAX_SL_DISTANCE_PCT > 0
    /\ upd_txt = "sl_far"
    /\ open_trades[main_tr].status = "open"

MaxPrice == 12            \* largest price level of the hashed signals

RECURSIVE Digits(_)
\* Decimal digits of a natural number.
Digits(n) ==
    LET d == <<"0", "1", "2", "3", "4", "5", "6", "7", "8", "9">>
    IN  IF n < 10 THEN <<d[n + 1]>> ELSE Digits(n \div 10) \o <<d[(n % 10) + 1]>>

\* str(x) of a float with an integral value: "12.0".
StrFloat(x) == Digits(x) \o <<".", "0">>

RECURSIVE JoinFloats(_)
\* ", ".join(str(x) for x in xs)
JoinFloats(xs) ==
    IF xs = <<>> THEN <<>>
    ELSE IF Len(xs) = 1 THEN StrFloat(xs[1])
    ELSE StrFloat(xs[1]) \o <<",", " ">> \o JoinFloats(Tail(xs))

\* str(xs) of a list of floats: "[1.0, 2.0]".
StrList(xs) == <<"[">> \o JoinFloats(xs) \o <<"]">>

\* signal_parser.py 192 and signal_parser_v2.py 203:
\* f"{symbol}|{side}|{trigger}|{tp_prices}|{dca_prices}"
SignalHashCore5(sig) ==
    sig.symbol \o <<"|">> \o sig.side \o <<"|">> \o StrFloat(sig.trigger)
        \o <<"|">> \o StrList(sig.tp_prices) \o <<"|">> \o StrList(sig.dca_prices)

\* signal_parser_v3.py 221: f"{symbol}|{side}|{trigger}|{tp_prices}"
SignalHashCore4(sig) ==
    sig.symbol \o <<"|">> \o sig.side \o <<"|">> \o StrFloat(sig.trigger)
        \o <<"|">> \o StrList(sig.tp_prices)

\* hashlib.md5(core).hexdigest(), taken as injective on the hashed text.
Md5(core) == core

\* signal_hash of the parser main.py imports (28-35).
signal_hash(version, sig) ==
    IF version = "v3" THEN Md5(SignalHashCore4(sig)) ELSE Md5(SignalHashCore5(sig))

ParserVersions == {"v1", "v2", "v3"}
HashSymbols == IntakeSymbols
HashSides == {<<"b", "u", "y">>, <<"s", "e", "l", "l">>}

\* The signals the feed can carry, as far as the hash and the engine read them.
AuthoredSignals ==
    [ symbol : HashSymbols, side : HashSides, trigger : {1, 11},
      tp_prices : {<<>>, <<1>>, <<1, 1>>, <<11>>, <<1, MaxPrice>>},
      dca_prices : {<<>>, <<1>>, <<11>>}, sl_price : {0, MaxPrice} ]

\* What the parser returns for a signal: v1 and v2 read the DCA lines
\* (signal_parser.py 117-150, signal_parser_v2.py 124-151), v3 returns an
\* empty list whatever the text says (signal_parser_v3.py 121).
parse_signal(version, sig) ==
    IF version = "v3" THEN [sig EXCEPT !.dca_prices = <<>>] ELSE sig

\* The five fields the dedupe hash is meant to cover.
HashedFields(sig) ==
    <<sig.symbol, sig.side, sig.trigger, sig.tp_prices, sig.dca_prices>>

InitHash ==
    /\ parser_version \in ParserVersions
    /\ sig_a \in AuthoredSignals
    /\ sig_b \in AuthoredSignals
    /\ hash_a = <<>> /\ hash_b = <<>>
    /\ hash_pc = "start"

\* main.py 480 and 493: signals = parse_all_signals(txt), sh = signal_hash(sig),
\* for both signals.
HashSignals ==
    /\ hash_pc = "start"
    /\ hash_a' = signal_hash(parser_version, parse_signal(parser_version, sig_a))
    /\ hash_b' = signal_hash(parser_version, parse_signal(parser_version, sig_b))
    /\ hash_pc' = "done"
    /\ UNCHANGED <<parser_version, sig_a, sig_b, life_vars, save_vars, entry_vars, other_vars>>

InitSpecHash == InitLifeIdle /\ InitHash /\ InitSaveIdle /\ InitIntake /\ InitOtherIdle

SpecHash == InitSpecHash /\ [][HashSignals]_vars

\* C8: for every parser version, two signals have equal hashes exactly when
\* they agree on symbol, side, trigger, take-profits and scale-ins.
C8_HashCoversFiveFields ==
    hash_pc = "done" =>
        ((hash_a = hash_b) <=> (HashedFields(sig_a) = HashedFields(sig_b)))

\* ============================================================== save_state
\* state.py 26-30 on a POSIX file system. A document is written in chunks (a
\* text larger than the write buffer takes several writes); chunk i of
\* document v is <<v, i>>.

MaxSaves == 3             \* calls of save_state in a run of the model
MaxChunks == 2            \* chunks of the longest document

STATE_FILE == "state.json"
TmpFile == "state.json.tmp"          \* p.with_suffix(p.suffix + ".tmp")

\* json.dumps(st): document number v, n chunks long.
Document(v, n) == [i \in 1..n |-> <<v, i>>]

IsCompleteDocument(data) ==
    \E v \in 1..MaxSaves, n \in 1..MaxChunks : data = Document(v, n)

\* Content of a file after a write of chunk c at offset off (counted in
\* chunks); a write beyond the end leaves a hole of zero bytes, <<0, 0>>.
WriteAt(data, off, c) ==
    [i \in 1..(IF off + 1 > Len(data) THEN off + 1 ELSE Len(data)) |->
        IF i = off + 1 THEN c ELSE IF i <= Len(data) THEN data[i] ELSE <<0, 0>>]

\* open(tmp, "w"): create the file if it is missing, else truncate it.
OpenTmp(th) ==
    IF fs_dir[TmpFile] = 0
    THEN /\ fs_data' = Append(fs_data, <<>>)
         /\ sv_fd' = [sv_fd EXCEPT ![th] = Len(fs_data) + 1]
         /\ fs_dir' = [fs_dir EXCEPT ![TmpFile] = Len(fs_data) + 1]
    ELSE /\ fs_data' = [fs_data EXCEPT ![fs_dir[TmpFile]] = <<>>]
         /\ sv_fd' = [sv_fd EXCEPT ![th] = fs_dir[TmpFile]]
         /\ UNCHANGED fs_dir

\* state.py 27-29: json.dumps, then write_text opens the temp file.
SaveOpen(th) ==
    /\ ~crashed
    /\ sv_pc[th] = "idle"
    /\ next_doc <= MaxSaves
    /\ \E n \in 1..MaxChunks : sv_doc' = [sv_doc EXCEPT ![th] = Document(next_doc, n)]
    /\ next_doc' = next_doc + 1
    /\ OpenTmp(th)
    /\ sv_off' = [sv_off EXCEPT ![th] = 0]
    /\ sv_pc' = [sv_pc EXCEPT ![th] = "open"]
    /\ UNCHANGED <<crashed, life_vars, hash_vars, entry_vars, other_vars>>

\* state.py 29: write_text writes the next chunk; after the last one it closes.
SaveWrite(th) ==
    /\ ~crashed
    /\ sv_pc[th] = "open"
    /\ fs_data' = [fs_data EXCEPT ![sv_fd[th]] =
                      WriteAt(@, sv_off[th], sv_doc[th][sv_off[th] + 1])]
    /\ sv_off' = [sv_off EXCEPT ![th] = @ + 1]
    /\ sv_pc' = [sv_pc EXCEPT ![th] =
                    IF sv_off[th] + 1 = Len(sv_doc[th]) THEN "written" ELSE "open"]
    /\ UNCHANGED <<fs_dir, sv_fd, sv_doc, next_doc, crashed, life_vars, hash_vars, entry_vars, other_vars>>

\* state.py 30: tmp.replace(p); FileNotFoundError when the temp file is gone.
SaveReplace(th) ==
    /\ ~crashed
    /\ sv_pc[th] = "written"
    /\ IF fs_dir[TmpFile] = 0
       THEN UNCHANGED fs_dir
       ELSE fs_dir' = [fs_dir EXCEPT ![STATE_FILE] = fs_dir[TmpFile], ![TmpFile] = 0]
    /\ sv_pc' = [sv_pc EXCEPT ![th] = "idle"]
    /\ UNCHANGED <<fs_data, sv_fd, sv_off, sv_doc, next_doc, crashed, life_vars, hash_vars, entry_vars, other_vars>>

\* The process stops (crash or kill) at any step.
Crash ==
    /\ ~crashed
    /\ crashed' = TRUE
    /\ UNCHANGED <<fs_dir, fs_data, sv_pc, sv_fd, sv_off, sv_doc, next_doc,
                   life_vars, hash_vars, entry_vars, other_vars>>

NextSave ==
    \/ \E th \in Savers : SaveOpen(th)
    \/ \E th \in Savers : SaveWrite(th)
    \/ \E th \in Savers : SaveReplace(th)
    \/ Crash

SpecSave == Init /\ [][NextSave]_vars

\* C10: whenever the process stops, the state file, if it exists, is one
\* complete saved document, also with both threads saving concurrently.
C10_StateFileComplete ==
    fs_dir[STATE_FILE] # 0 => IsCompleteDocument(fs_data[fs_dir[STATE_FILE]])

\* ============================================== signal intake and safety caps
\* main.py 397-618, one cycle of the control loop as far as it takes signals in
\* and opens trades, with the listener and the monitor thread beside it.

MAX_CONCURRENT_TRADES == 2
MAX_TRADES_PER_DAY == 2
MAX_SIGNALS_PER_BATCH == 2
SIGNAL_BATCH_ENABLED == TRUE
SEEN_CAP == 500           \* main.py 505: list(seen)[-500:]
MaxFetch == 2             \* signals in the messages of one fetch

OtherThanIntake == <<life_vars, hash_vars, save_vars, other_vars>>

\* d[k] = v
DictSet(d, k, v) == [x \in DOMAIN d \cup {k} |-> IF x = k THEN v ELSE d[x]]

\* d.get(k, 0)
DictGet(d, k) == IF k \in DOMAIN d THEN d[k] ELSE 0

\* Signals the feed can carry: two for the same symbol and side with different
\* triggers, one for another symbol.
IntakeSignals ==
    { [symbol |-> <<"A", "U", "S", "D", "T">>, side |-> <<"b", "u", "y">>,
       trigger |-> 1, tp_prices |-> <<11>>, dca_prices |-> <<>>, sl_price |-> 0],
      [symbol |-> <<"A", "U", "S", "D", "T">>, side |-> <<"b", "u", "y">>,
       trigger |-> 11, tp_prices |-> <<MaxPrice>>, dca_prices |-> <<>>, sl_price |-> 0],
      [symbol |-> <<"A", "A", "U", "S", "D", "T">>, side |-> <<"s", "e", "l", "l">>,
       trigger |-> 11, tp_prices |-> <<1>>, dca_prices |-> <<>>, sl_price |-> MaxPrice] }

\* main.py 442-450 and 459-481: the signals parsed from the fetched messages,
\* in message order.
FetchChoices == UNION { [1..n -> IntakeSignals] : n \in 0..MaxFetch }

\* main.py 538: trade_id = f"{symbol}|{side}|{int(time.time())}"
TradeId(sig, ts) == <<sig.symbol, sig.side, ts>>

\* main.py 551-572: the trade stored for an accepted signal.
StoredTrade(sig) ==
    [symbol |-> sig.symbol,
     order_side |-> IF sig.side = <<"s", "e", "l", "l">> THEN "Sell" ELSE "Buy",
     trigger |-> sig.trigger,
     status |-> "pending", post_orders_placed |-> FALSE]

\* main.py 432 and 577: trades with status pending or open.
ActiveIds(trs) == {id \in DOMAIN trs : trs[id].status \in {"pending", "open"}}

\* main.py 389-390
trades_today(counts, ts) == DictGet(counts, utc_day_key(ts))

\* main.py 392-394
inc_trades_today(counts, ts) ==
    DictSet(counts, utc_day_key(ts), DictGet(counts, utc_day_key(ts)) + 1)

\* Mutant: the execute loop never stops before the end of the batch.
HitLimits_Never(trs, counts, ts) == FALSE

\* main.py 433-436 and 577-578: a cap is reached.
HitLimits(trs, counts, ts) ==
    \/ Cardinality(ActiveIds(trs)) >= MAX_CONCURRENT_TRADES
    \/ trades_today(counts, ts) >= MAX_TRADES_PER_DAY

RECURSIVE IngestSignals(_, _, _)
\* main.py 459-502: skip a signal whose hash is in seen, else mark it seen and
\* append it to the batch.
IngestSignals(sigs, seen0, batch0) ==
    IF sigs = <<>> THEN [seen |-> seen0, batch |-> batch0]
    ELSE LET sh == signal_hash(parser_version, Head(sigs))
         IN  IF sh \in seen0
             THEN IngestSignals(Tail(sigs), seen0, batch0)
             ELSE IngestSignals(Tail(sigs), seen0 \cup {sh}, Append(batch0, Head(sigs)))

\* Hashes of signals of earlier cycles, none of them in the feed any more.
SeenHistory == { <<"o", "l", "d">> \o Digits(i) : i \in 1..(SEEN_CAP - 1) }

\* The elements of S the slice may drop. The hashes of SeenHistory never come
\* in again and are alike in all that follows, so one of them stands for
\* each of them.
Droppable(S) ==
    (S \ SeenHistory) \cup
        (IF S \cap SeenHistory = {} THEN {} ELSE {CHOOSE x \in S \cap SeenHistory : TRUE})

RECURSIVE DropAny(_, _)
\* The sets left when k elements of S are dropped.
DropAny(S, k) ==
    IF k = 0 THEN {S} ELSE UNION { DropAny(S \ {x}, k - 1) : x \in Droppable(S) }

\* main.py 505: list(seen)[-500:]. A set lists its elements in an order that
\* has nothing to do with the order they were added in, so the slice drops
\* any len(seen) - 500 of them.
CapSeen(S) ==
    IF Cardinality(S) <= SEEN_CAP THEN {S} ELSE DropAny(S, Cardinality(S) - SEEN_CAP)

\* main.py 510-534 with signal_scorer.py 199-236: the scorer orders the batch
\* by market data and drops what it rates unfit; the first max_count remain.
SelectBest(batch) ==
    LET lens == 0..(IF Len(batch) < MAX_SIGNALS_PER_BATCH THEN Len(batch)
                    ELSE MAX_SIGNALS_PER_BATCH)
        picks == { f \in UNION { [1..n -> 1..Len(batch)] : n \in lens } :
                     \A i, j \in DOMAIN f : i # j => f[i] # f[j] }
    IN  { [i \in DOMAIN f |-> batch[f[i]]] : f \in picks }

\* TradeEngine.place_post_entry_orders on a trade of the intake book: protective
\* orders go out for an open trade and the flag is set.
place_post_entry_orders(tr) ==
    IF tr.status = "open" THEN [tr EXCEPT !.post_orders_placed = TRUE] ELSE tr

\* main.py 429-430 and 598-599
PlaceIfNeeded(tr) ==
    IF tr.status = "open" /\ ~tr.post_orders_placed THEN place_post_entry_orders(tr) ELSE tr

\* The aggregate st as the control loop writes it: trades, daily counts and
\* the dedupe list (state.py 19-24).
Aggregate == <<st_open_trades, daily_counts, seen_signal_hashes>>

\* The step is one of the control loop and records whether it changed st.
Mutates == dirty' = (dirty \/ Aggregate' # Aggregate)

\* main.py 406-412: the engine's maintenance. Pending entries that expired
\* are cancelled, trades that ended are dropped from the book. Then main.py
\* 420 lists the trades for the entry-fill fallback.
IntakeMaintenance ==
    /\ loop_pc = "maint"
    /\ \E expired \in SUBSET {id \in DOMAIN st_open_trades :
                                st_open_trades[id].status = "pending"},
          gone \in SUBSET {id \in DOMAIN st_open_trades :
                                st_open_trades[id].status \notin {"pending", "open"}} :
         /\ st_open_trades' =
               [id \in DOMAIN st_open_trades \ gone |->
                   IF id \in expired
                   THEN [st_open_trades[id] EXCEPT !.status = "cancelled"]
                   ELSE st_open_trades[id]]
         /\ fill_todo' = DOMAIN st_open_trades \ gone
    /\ loop_pc' = "poll"
    /\ UNCHANGED <<daily_counts, orders_of, intake_vars, fill_cur, exch_pos, entry_filled, now,
                   OtherThanIntake>>
    /\ Mutates

\* main.py 420-423 and 587-589: the loop takes the next trade and reads its
\* status; for a pending one it asks the exchange for the position, for
\* any other it goes on to 429-430 (598-599).
FillCheckRead ==
    /\ loop_pc \in {"poll", "imm"}
    /\ fill_cur = <<>>
    /\ \E id \in fill_todo :
         /\ fill_todo' = fill_todo \ {id}
         /\ IF st_open_trades[id].status = "pending"
            THEN /\ fill_cur' = id
                 /\ UNCHANGED st_open_trades
            ELSE /\ fill_cur' = <<>>
                 /\ st_open_trades' =
                       [st_open_trades EXCEPT ![id] = PlaceIfNeeded(@)]
    /\ UNCHANGED <<daily_counts, orders_of, intake_vars, exch_pos, entry_filled, now, loop_pc,
                   OtherThanIntake>>
    /\ Mutates

\* main.py 423-430 and 589-599: the position query returns; with a position
\* on the symbol the trade is written open, whatever its status is by now.
FillCheckWrite ==
    /\ loop_pc \in {"poll", "imm"}
    /\ fill_cur # <<>>
    /\ LET tr == st_open_trades[fill_cur]
           filled == IF exch_pos[tr.symbol] THEN [tr EXCEPT !.status = "open"] ELSE tr
       IN  st_open_trades' = [st_open_trades EXCEPT ![fill_cur] = PlaceIfNeeded(filled)]
    /\ fill_cur' = <<>>
    /\ UNCHANGED <<daily_counts, orders_of, intake_vars, fill_todo, exch_pos, entry_filled, now,
                   loop_pc, OtherThanIntake>>
    /\ Mutates

\* End of the loop at main.py 420-430 (then the caps, 432) or at 587-599
\* (then save_state, 601).
FillCheckDone ==
    /\ loop_pc \in {"poll", "imm"}
    /\ fill_cur = <<>>
    /\ fill_todo = {}
    /\ loop_pc' = IF loop_pc = "poll" THEN "gate" ELSE "save"
    /\ UNCHANGED <<book_vars, intake_vars, fill_vars, exch_pos, entry_filled, now, OtherThanIntake>>
    /\ Mutates

\* main.py 432-438: with a cap reached no signal is read in this cycle.
CapsGate ==
    /\ loop_pc = "gate"
    /\ loop_pc' = IF HitLimits(st_open_trades, daily_counts, now) THEN "save" ELSE "ingest"
    /\ UNCHANGED <<book_vars, intake_vars, fill_vars, exch_pos, entry_filled, now, OtherThanIntake>>
    /\ Mutates

\* main.py 440-505: fetch, parse, dedupe into the batch, cap the seen list.
Ingest ==
    /\ loop_pc = "ingest"
    /\ \E sigs \in FetchChoices :
         LET r == IngestSignals(sigs, seen_signal_hashes, <<>>)
         IN  /\ seen' = r.seen
             /\ batch_signals' = r.batch
             /\ batch_all' = r.batch
             /\ seen_signal_hashes' \in CapSeen(r.seen)
    /\ seen_before' = seen_signal_hashes
    /\ loop_pc' = "select"
    /\ UNCHANGED <<book_vars, batch_i, exec_id, fill_vars, exch_pos, entry_filled, now, OtherThanIntake>>
    /\ Mutates

\* main.py 508-534: more than one signal in the batch goes through the scorer.
SelectBatch ==
    /\ loop_pc = "select"
    /\ IF SIGNAL_BATCH_ENABLED /\ Len(batch_signals) > 1
       THEN batch_signals' \in SelectBest(batch_signals)
       ELSE UNCHANGED batch_signals
    /\ batch_i' = 1
    /\ loop_pc' = "exec"
    /\ UNCHANGED <<book_vars, seen_signal_hashes, seen, seen_before, batch_all, exec_id,
                   fill_vars, exch_pos, entry_filled, now, OtherThanIntake>>
    /\ Mutates

\* main.py 537-543: the trade id is made from the clock and the entry order is
\* placed; TradeEngine.place_conditional_entry returns an order id, or nothing
\* when the exchange refuses, and then the loop goes to the next signal.
ExecutePlace ==
    /\ loop_pc = "exec"
    /\ exec_id = <<>>
    /\ batch_i <= Len(batch_signals)
    /\ \E oid \in BOOLEAN :
         IF oid
         THEN /\ exec_id' = TradeId(batch_signals[batch_i], now)
              /\ orders_of' =
                    LET sh == signal_hash(parser_version, batch_signals[batch_i])
                    IN  DictSet(orders_of, sh, DictGet(orders_of, sh) + 1)
              /\ UNCHANGED batch_i
         ELSE /\ batch_i' = batch_i + 1
              /\ UNCHANGED <<exec_id, orders_of>>
    /\ UNCHANGED <<st_open_trades, daily_counts, seen_signal_hashes, seen, seen_before,
                   batch_signals, batch_all, fill_vars, exch_pos, entry_filled, now, loop_pc,
                   OtherThanIntake>>
    /\ Mutates

\* main.py 545-579: the trade is stored under its id, the day's count goes
\* up, and the loop stops when a cap is reached.
ExecuteStore ==
    /\ loop_pc = "exec"
    /\ exec_id # <<>>
    /\ st_open_trades' = DictSet(st_open_trades, exec_id, StoredTrade(batch_signals[batch_i]))
    /\ daily_counts' = inc_trades_today(daily_counts, now)
    /\ batch_i' = IF HitLimits(st_open_trades', daily_counts', now)
                  THEN Len(batch_signals) + 1
                  ELSE batch_i + 1
    /\ exec_id' = <<>>
    /\ UNCHANGED <<orders_of, seen_signal_hashes, seen, seen_before, batch_signals,
                   batch_all, fill_vars, exch_pos, entry_filled, now, loop_pc, OtherThanIntake>>
    /\ Mutates

\* main.py 581-587: after the batch, the immediate fill check when there was
\* a batch, else save_state.
ExecuteDone ==
    /\ loop_pc = "exec"
    /\ exec_id = <<>>
    /\ batch_i > Len(batch_signals)
    /\ IF batch_signals # <<>>
       THEN /\ fill_todo' = DOMAIN st_open_trades
            /\ loop_pc' = "imm"
       ELSE /\ UNCHANGED fill_todo
            /\ loop_pc' = "save"
    /\ UNCHANGED <<book_vars, intake_vars, fill_cur, exch_pos, entry_filled, now, OtherThanIntake>>
    /\ Mutates

\* main.py 601-618: save_state and the sleep; the next cycle begins with its
\* locals unset.
EndCycle ==
    /\ loop_pc = "save"
    /\ loop_pc' = "maint"
    /\ seen' = {} /\ seen_before' = {}
    /\ batch_signals' = <<>> /\ batch_all' = <<>> /\ batch_i' = 1
    /\ UNCHANGED <<book_vars, seen_signal_hashes, exec_id, fill_vars, exch_pos, entry_filled, now,
                   OtherThanIntake>>
    /\ dirty' = FALSE

\* What a call of the loop body can raise: an error of a client or of the
\* code (requests errors, KeyError, TypeError, ...: subclasses of Exception),
\* or the interrupt of the operator.
ExceptionClasses == {"Exception", "KeyboardInterrupt"}

\* Mutant: the outer guard has no clause for Exception.
OuterGuard_InterruptOnly(exc) ==
    IF exc = "KeyboardInterrupt" THEN "bye" ELSE "dead"

\* main.py 603-608: the except clauses of the try of one iteration, by the
\* place the loop is at afterwards: "bye" after the break (603-605),
\* "caught" in the handler that logs and sleeps (606-608), "dead" when the
\* exception leaves the while loop.
OuterGuard(exc) ==
    CASE exc = "KeyboardInterrupt" -> "bye"
      [] exc = "Exception" -> "caught"
      [] OTHER -> "dead"

\* main.py 398-608: a call of the loop body raises, here the position query
\* of a fill check (423, 589) or a call of the execute loop (540, 547, 565);
\* the rest of the try block, save_state (601) included, is not run.
LoopError ==
    /\ \/ loop_pc \in {"poll", "imm"} /\ fill_cur # <<>>
       \/ loop_pc = "exec" /\ batch_i <= Len(batch_signals)
    /\ \E exc \in ExceptionClasses : loop_pc' = OuterGuard(exc)
    /\ fill_todo' = {} /\ fill_cur' = <<>> /\ exec_id' = <<>>
    /\ seen' = {} /\ seen_before' = {}
    /\ batch_signals' = <<>> /\ batch_all' = <<>> /\ batch_i' = 1
    /\ UNCHANGED dirty
    /\ UNCHANGED <<book_vars, seen_signal_hashes, exch_pos, entry_filled, now, OtherThanIntake>>

\* main.py 607-618: the handler has logged and slept three seconds; the
\* loop sleeps until the next poll and starts the next iteration.
LoopResume ==
    /\ loop_pc = "caught"
    /\ loop_pc' = "maint"
    /\ dirty' = FALSE
    /\ UNCHANGED <<book_vars, intake_vars, fill_vars, exch_pos, entry_filled, now, OtherThanIntake>>

\* The exchange triggers the entry order of a pending trade.
IntakeEntryFill(id) ==
    /\ st_open_trades[id].status = "pending"
    /\ id \notin entry_filled
    /\ exch_pos' = [exch_pos EXCEPT ![st_open_trades[id].symbol] = TRUE]
    /\ entry_filled' = entry_filled \cup {id}
    /\ UNCHANGED <<book_vars, intake_vars, fill_vars, now, loop_pc, OtherThanIntake>>
    /\ UNCHANGED dirty

\* main.py 288-290 with TradeEngine.on_execution: the listener gets the entry
\* fill; the trade opens and its protective orders are placed.
ListenerEntryFill(id) ==
    /\ st_open_trades[id].status = "pending"
    /\ id \in entry_filled
    /\ st_open_trades' = [st_open_trades EXCEPT ![id] =
                             place_post_entry_orders([@ EXCEPT !.status = "open"])]
    /\ UNCHANGED <<daily_counts, orders_of, intake_vars, fill_vars, exch_pos, entry_filled, now,
                   loop_pc, OtherThanIntake>>
    /\ UNCHANGED dirty

\* main.py 288-290 with TradeEngine.on_execution: the position of an open
\* trade is closed on the exchange and the listener closes the trade.
ListenerExit(id) ==
    /\ st_open_trades[id].status = "open"
    /\ st_open_trades' = [st_open_trades EXCEPT ![id].status = "closed"]
    /\ exch_pos' = [exch_pos EXCEPT ![st_open_trades[id].symbol] = FALSE]
    /\ UNCHANGED <<daily_counts, orders_of, intake_vars, fill_vars, entry_filled, now, loop_pc,
                   OtherThanIntake>>
    /\ UNCHANGED dirty

\* main.py 324-375: the monitor cancels a trade it listed as pending; by the
\* time it writes the status (374) the trade may have opened.
MonitorCancel(id) ==
    /\ st_open_trades[id].status \in {"pending", "open"}
    /\ st_open_trades' = [st_open_trades EXCEPT ![id].status = "cancelled_past_tp"]
    /\ UNCHANGED <<daily_counts, orders_of, intake_vars, fill_vars, exch_pos, entry_filled, now,
                   loop_pc, OtherThanIntake>>
    /\ UNCHANGED dirty

\* A second passes.
Tick ==
    /\ now + 1 \in ClockValues
    /\ now' = now + 1
    /\ UNCHANGED <<book_vars, intake_vars, fill_vars, exch_pos, entry_filled, loop_pc,
                   OtherThanIntake>>
    /\ UNCHANGED dirty

NextIntake ==
    \/ IntakeMaintenance
    \/ FillCheckRead
    \/ FillCheckWrite
    \/ FillCheckDone
    \/ CapsGate
    \/ Ingest
    \/ SelectBatch
    \/ ExecutePlace
    \/ ExecuteStore
    \/ ExecuteDone
    \/ EndCycle
    \/ LoopError
    \/ LoopResume
    \/ \E id \in DOMAIN st_open_trades : IntakeEntryFill(id)
    \/ \E id \in DOMAIN st_open_trades : ListenerEntryFill(id)
    \/ \E id \in DOMAIN st_open_trades : ListenerExit(id)
    \/ \E id \in DOMAIN st_open_trades : MonitorCancel(id)
    \/ Tick

InitSpecIntake == InitLifeIdle /\ InitHashIdle /\ InitSaveIdle /\ InitIntake /\ InitOtherIdle

SpecIntake == InitSpecIntake /\ [][NextIntake]_vars

\* C5: the book never holds two trades with status pending or open for the
\* same symbol and side.
C5_OneActivePerPair ==
    \A a, b \in ActiveIds(st_open_trades) :
        (st_open_trades[a].symbol = st_open_trades[b].symbol
            /\ st_open_trades[a].order_side = st_open_trades[b].order_side) => a = b

\* C6: the trades with status pending or open never number more than
\* MAX_CONCURRENT_TRADES and no day's entry count exceeds MAX_TRADES_PER_DAY.
C6_SafetyCaps ==
    /\ Cardinality(ActiveIds(st_open_trades)) <= MAX_CONCURRENT_TRADES
    /\ \A d \in DOMAIN daily_counts : daily_counts[d] <= MAX_TRADES_PER_DAY

\* C6 witness: with one trade active already, a batch of two signals was cut
\* short after its first entry because the cap was reached.
C6_Witness ==
    /\ loop_pc = "exec"
    /\ Len(batch_signals) = 2
    /\ batch_i = 3
    /\ DictGet(orders_of, signal_hash(parser_version, batch_signals[2])) = 0
    /\ Cardinality(ActiveIds(st_open_trades)) = MAX_CONCURRENT_TRADES

\* ====================================================== the dedupe list
\* A restart with a dedupe list one short of its cap (state.py 12-16).
InitDedupe == InitIntakeWith(SeenHistory)

\* The control loop alone within one second, with no fill and no cancel from
\* the other threads.
NextDedupe ==
    \/ IntakeMaintenance
    \/ FillCheckRead
    \/ FillCheckWrite
    \/ FillCheckDone
    \/ CapsGate
    \/ Ingest
    \/ SelectBatch
    \/ ExecutePlace
    \/ ExecuteStore
    \/ ExecuteDone
    \/ EndCycle

InitSpecDedupe == InitLifeIdle /\ InitHashIdle /\ InitSaveIdle /\ InitDedupe /\ InitOtherIdle

SpecDedupe == InitSpecDedupe /\ [][NextDedupe]_vars

\* Hashes of the signals of a batch.
HashesOf(batch) == { signal_hash(parser_version, batch[i]) : i \in DOMAIN batch }

\* C7: no signal of the batch had its hash in the seen set before, no two
\* signals of the batch share a hash, no signal got more than one entry
\* order, and when the cycle ends every hash of the batch is in
\* seen_signal_hashes.
C7_DedupeBySeenHashes ==
    /\ HashesOf(batch_all) \cap seen_before = {}
    /\ Cardinality(HashesOf(batch_all)) = Len(batch_all)
    /\ loop_pc = "save" => HashesOf(batch_all) \subseteq seen_signal_hashes

\* C9: after an ingestion seen_signal_hashes has at most 500 entries and
\* none of the hashes added in that cycle has been evicted from it.
C9_KeepsMostRecent ==
    loop_pc \in {"select", "exec", "imm", "save"} =>
        /\ Cardinality(seen_signal_hashes) <= SEEN_CAP
        /\ (seen \ seen_before) \subseteq seen_signal_hashes

\* ================================================= access to the trade map
\* The control loop holds a trade it has read and not yet written back: the
\* position query of the fallback poll (main.py 421-426) or the call that
\* places the post-entry orders (429-430) is in flight.
MainHolds(t) == main_pc \in {"poll_query", "poll_place"} /\ main_tr = t

\* The monitor holds a trade: it has decided to cancel and the cancel call
\* is in flight (main.py 364-374).
MonHolds(t) == mon_pc = "cancel" /\ mon_tr = t

\* C11: while one thread is between its read and its write of a trade, no
\* other thread changes that trade.
C11_TradeAccessSerialized ==
    [][\A t \in Trades :
          (\/ MainHolds(t) /\ main_pc' = main_pc
           \/ MonHolds(t) /\ mon_pc' = mon_pc)
          => open_trades'[t] = open_trades[t]]_vars

\* ==================================================== stop-loss update
\* The step main.py 157-280 takes for trade t.
UpdateApplied(t) == main_pc = "upd_apply" /\ main_tr = t /\ main_pc' = "upd_fetch"

\* C16: when the update check applies a re-read message whose stop-loss
\* differs from the stored one and lies within the distance caps to an open
\* trade whose stop has not moved to break-even, the trade's sl_price becomes
\* the new value, the live stop order is moved and the trade stays open.
C16_StopLossUpdateApplied ==
    [][\A t \in Trades :
          LET tr == open_trades[t]
              new_sl == SlOfText(upd_txt, tr.order_side)
          IN  (/\ UpdateApplied(t)
               /\ tr.status = "open"
               /\ ~IsCancelText(upd_txt)
               /\ new_sl # tr.sl_price
               /\ ~tr.sl_moved_to_be
               /\ ~SlDistanceOver(new_sl, tr.trigger, MAX_SL_DISTANCE_PCT))
              => /\ open_trades'[t].sl_price = new_sl
                 /\ live_stop'[t] = new_sl
                 /\ open_trades'[t].status = "open"]_vars

\* ===================================================== feed cancellation
\* The step main.py 159-182 takes for trade t: the fetched text announces the
\* trade as cancelled while the trade is still pending or open.
FeedCancelApplied(t) ==
    /\ UpdateApplied(t)
    /\ IsCancelText(upd_txt)
    /\ open_trades[t].status \in Active

\* What every feed cancellation does to the trade dict: terminal status, exit
\* reason, close timestamp, and no stop-loss or take-profit of the message.
FeedCancelMarks(t) ==
    /\ open_trades'[t].status = "cancelled"
    /\ open_trades'[t].exit_reason = "signal_cancelled"
    /\ open_trades'[t].closed_ts # 0
    /\ open_trades'[t].sl_price = open_trades[t].sl_price
    /\ open_trades'[t].tp_prices = open_trades[t].tp_prices
    /\ open_trades[t].status = "open" => live_stop'[t] = 0

MonCancelApplied(t) == mon_pc = "cancel" /\ mon_tr = t /\ mon_pc' = "price"

\* C15: a step of the update check or of the monitor in which the cancel of
\* the entry order fails still moves the trade to its cancelled status, and
\* the thread goes on to its next trade.
C15_FailedCancelStillAdvances ==
    [][\A t \in Trades :
          ((UpdateApplied(t) \/ MonCancelApplied(t)) /\ entry_cancel'[t] = "failed")
          => /\ open_trades'[t].status \in {"cancelled", "cancelled_past_tp"}
             /\ UpdateApplied(t) => main_pc' = "upd_fetch"
             /\ MonCancelApplied(t) => mon_pc' = "price"]_vars

\* C15 witness: the feed cancelled a pending trade, the cancel call failed,
\* the entry order still rests and the trade is cancelled nevertheless.
C15_Witness ==
    \E t \in Trades :
        /\ last_step = [op |-> "updates_apply", tr |-> t]
        /\ entry_cancel[t] = "failed"
        /\ entry_live[t]
        /\ open_trades[t].status = "cancelled"

\* ================================================ one control-loop iteration
\* C12: an iteration of the control loop that has changed the aggregate
\* reaches its sleep only through save_state.
C12_MutatingIterationSaves ==
    [][(dirty /\ loop_pc # "maint" /\ loop_pc' = "maint") => loop_pc = "save"]_vars

\* The part of the iteration a position of the loop belongs to: 1 the
\* maintenance (main.py 406-412), 2 the intake of new signals (432-581),
\* 3 the polling for entry fills (420-430, 585-599), 4 save and sleep (601-618).
PhaseOf(pc) ==
    CASE pc = "maint" -> 1
      [] pc \in {"gate", "ingest", "select", "exec"} -> 2
      [] pc \in {"poll", "imm"} -> 3
      [] OTHER -> 4

\* C13: inside one iteration the control loop never goes back from a later
\* part to an earlier one: maintenance, then intake of new signals, then
\* fill-detection polling; only a new iteration starts over with maintenance.
C13_MaintenanceIntakePolling ==
    [][loop_pc' # "maint" => PhaseOf(loop_pc') >= PhaseOf(loop_pc)]_vars

\* ======================================================= scale-in update
\* check_signal_updates for one trade as far as it handles DCA levels
\* (main.py 186-191 and 266-277), under each parser version.

\* DCA levels a message can list, nearest first.
DcaLists == {<<>>, <<95>>, <<95, 90>>}

\* The elements of a list.
Levels(list) == {list[i] : i \in DOMAIN list}

\* parse_signal_update(text)["dca_prices"]: v1 and v2 read the DCA lines
\* (signal_parser.py 177-185, signal_parser_v2.py 178-186), v3 reads none
\* (signal_parser_v3.py 195-214).
ParseUpdateDca(version, text_dcas) == IF version = "v3" THEN <<>> ELSE text_dcas

\* TradeEngine.place_dca_orders(tr): a resting order for each DCA level of the
\* trade, and the flag set.
place_dca_orders(tr) == [tr EXCEPT !.dca_orders_placed = TRUE]

\* main.py 266-277: the DCA part of one trade's update, once the text is parsed.
ApplyDcaUpdate(tr, new_dcas) ==
    IF new_dcas # <<>> /\ tr.dca_prices = <<>>
    THEN LET saved == [tr EXCEPT !.dca_prices = new_dcas]
         IN  IF tr.status = "open" /\ ~tr.dca_orders_placed
             THEN place_dca_orders(saved)
             ELSE saved
    ELSE tr

\* main.py 551-572: the trade as it is stored for a signal with the given
\* DCA levels, pending and with no DCA order placed.
DcaTrades ==
    [status : {"pending"}, dca_prices : DcaLists, dca_orders_placed : {FALSE}]

InitDca ==
    /\ dca_trade \in DcaTrades
    /\ dca_feed = dca_trade.dca_prices
    /\ dca_txt = <<>>
    /\ dca_orders = {}
    /\ dca_pc = "idle"

\* Everything the scale-in update leaves alone.
OtherThanDca == <<life_vars, hash_vars, save_vars, entry_vars, score_vars, aux_vars>>

\* The signal author edits the DCA levels of the message.
DcaFeedEdit ==
    /\ dca_pc = "idle"
    /\ \E list \in DcaLists \ {dca_feed} : dca_feed' = list
    /\ UNCHANGED <<dca_trade, dca_txt, dca_orders, dca_pc, OtherThanDca>>

\* TradeEngine.on_execution for the entry fill: the trade opens and, when it
\* has DCA levels, the orders for them are placed.
DcaEntryFill ==
    /\ dca_trade.status = "pending"
    /\ dca_trade' = IF dca_trade.dca_prices # <<>>
                    THEN place_dca_orders([dca_trade EXCEPT !.status = "open"])
                    ELSE [dca_trade EXCEPT !.status = "open"]
    /\ dca_orders' = Levels(dca_trade.dca_prices)
    /\ UNCHANGED <<dca_feed, dca_txt, dca_pc, OtherThanDca>>

\* main.py 138-155: the message of the trade is fetched again.
DcaFetch ==
    /\ dca_pc = "idle"
    /\ dca_txt' = dca_feed
    /\ dca_pc' = "fetched"
    /\ UNCHANGED <<dca_trade, dca_feed, dca_orders, OtherThanDca>>

\* main.py 186-280: the text is parsed and the DCA levels applied; the
\* TypeError of the call at line 186 ends the handling of the trade (279).
DcaUpdate ==
    /\ dca_pc = "fetched"
    /\ dca_trade' = IF ParseUpdateRaises THEN dca_trade
                    ELSE ApplyDcaUpdate(dca_trade, ParseUpdateDca(parser_version, dca_txt))
    /\ dca_orders' = IF dca_trade'.dca_orders_placed /\ ~dca_trade.dca_orders_placed
                     THEN Levels(dca_trade'.dca_prices) ELSE dca_orders
    /\ dca_pc' = "idle"
    /\ UNCHANGED <<dca_feed, dca_txt, OtherThanDca>>

NextDca == DcaFeedEdit \/ DcaEntryFill \/ DcaFetch \/ DcaUpdate

\* Any of the parsers is selected and no signal is being hashed.
InitHashAnyVersion ==
    /\ parser_version \in ParserVersions
    /\ sig_a = <<>> /\ sig_b = <<>>
    /\ hash_a = <<>> /\ hash_b = <<>>
    /\ hash_pc = "idle"

InitSpecDca ==
    InitLifeIdle /\ InitHashAnyVersion /\ InitSaveIdle /\ InitIntake /\ InitDca /\ InitScoreIdle
    /\ InitAuxIdle

SpecDca == InitSpecDca /\ [][NextDca]_vars

\* C17: when the update check handles an open trade whose message lists DCA
\* levels the trade does not have, whether the trade had none or had some,
\* an order rests at each of the new levels afterwards and the trade is
\* still open.
C17_NewScaleInsPlaced ==
    [][(/\ dca_pc = "fetched" /\ dca_pc' = "idle"
        /\ dca_trade.status = "open"
        /\ Levels(dca_txt) \ Levels(dca_trade.dca_prices) # {})
       => /\ Levels(dca_txt) \subseteq dca_orders'
          /\ dca_trade'.status = "open"]_vars

\* ======================================================= batch selection
\* signal_scorer.py with the recommendation policy of trend_analysis.py and
\* the branch of main.py 507-540 that decides which signals reach the
\* execute loop.

MAX_ALLOWED_LEG == 3
MaxBatch == 3             \* signals in one batch

\* Python's None.
None == "None"

\* The signal arriving at position i of the batch: a long with its first
\* take-profit 2.0 or 3.5 times the risk away, or a short at 2.0.
ScoreSignals(i) ==
    { [symbol |-> i, side |-> "buy", trigger |-> 100, sl_price |-> 98, tp_prices |-> <<104>>],
      [symbol |-> i, side |-> "buy", trigger |-> 100, sl_price |-> 98, tp_prices |-> <<107>>],
      [symbol |-> i, side |-> "sell", trigger |-> 100, sl_price |-> 102, tp_prices |-> <<96>>] }

\* What the candles of a symbol yield: no usable candles (bybit.klines fails
\* or returns fewer than 50, signal_scorer.py 157-171), fewer than four swing
\* points, or a trend with its direction, leg number and pullback state.
Markets ==
    { [kind |-> "none", direction |-> "NEUTRAL", leg |-> 0, pullback |-> FALSE],
      [kind |-> "few", direction |-> "NEUTRAL", leg |-> 0, pullback |-> FALSE] }
    \cup { m \in [kind : {"trend"}, direction : {"UP", "DOWN"}, leg : {1, 3, 4},
                  pullback : BOOLEAN] : m.leg = 4 => ~m.pullback }

\* Mutant: the pullback test stands before the leg bound.
analyze_trend_PullbackFirst(market, signal_side, max_allowed_leg) ==
    LET result(rec, why) ==
            [direction |-> market.direction, current_leg |-> market.leg,
             is_pullback |-> market.pullback, recommendation |-> rec, reason |-> why]
    IN  IF market.kind = "few" THEN result("SKIP", "not enough swing points")
        ELSE IF signal_side = "buy" /\ market.direction # "UP"
             THEN result("SKIP", "signal against trend direction")
        ELSE IF signal_side = "sell" /\ market.direction # "DOWN"
             THEN result("SKIP", "signal against trend direction")
        ELSE IF market.pullback THEN result("VALID", "pullback")
        ELSE IF market.leg > max_allowed_leg
             THEN result("SKIP", "leg > max allowed")
        ELSE IF market.leg <= 2 THEN result("VALID", "early trend")
        ELSE result("LATE", "not in pullback")

\* trend_analysis.py 580-688: the recommendation policy of analyze_trend.
analyze_trend(market, signal_side, max_allowed_leg) ==
    LET result(rec, why) ==
            [direction |-> market.direction, current_leg |-> market.leg,
             is_pullback |-> market.pullback, recommendation |-> rec, reason |-> why]
    IN  IF market.kind = "few" THEN result("SKIP", "not enough swing points")
        ELSE IF signal_side = "buy" /\ market.direction # "UP"
             THEN result("SKIP", "signal against trend direction")
        ELSE IF signal_side = "sell" /\ market.direction # "DOWN"
             THEN result("SKIP", "signal against trend direction")
        ELSE IF market.leg > max_allowed_leg
             THEN result("SKIP", "leg > max allowed")
        ELSE IF market.pullback THEN result("VALID", "pullback")
        ELSE IF market.leg <= 2 THEN result("VALID", "early trend")
        ELSE result("LATE", "not in pullback")

\* analysis = None (signal_scorer.py 157), in the shape of a TrendAnalysis so
\* that a list can hold it beside the others.
NoAnalysis ==
    [direction |-> "NEUTRAL", current_leg |-> 0, is_pullback |-> FALSE,
     recommendation |-> None, reason |-> None]

\* signal_scorer.py 157-171: the analysis score_signals_batch obtains.
AnalysisOf(sig, market) ==
    IF market.kind = "none" THEN NoAnalysis
    ELSE analyze_trend(market, sig.side, MAX_ALLOWED_LEG)

\* signal_scorer.py 31-65: calculate_rr_ratio, times ten. The prices of
\* ScoreSignals make the quotient exact.
calculate_rr_ratio_x10(signal) ==
    IF signal.trigger = 0 \/ signal.sl_price = 0 \/ signal.tp_prices = <<>> THEN 0
    ELSE LET tp1 == signal.tp_prices[1]
             reward == IF signal.side = "buy" THEN tp1 - signal.trigger
                                              ELSE signal.trigger - tp1
             risk == IF signal.side = "buy" THEN signal.trigger - signal.sl_price
                                            ELSE signal.sl_price - signal.trigger
         IN  IF tp1 = 0 \/ risk <= 0 THEN 0 ELSE (reward * 10) \div risk

\* Mutant: a late entry is not marked down.
score_signal_NoLatePenalty(signal, analysis, max_allowed_leg) ==
    IF analysis = NoAnalysis THEN [score |-> 0, skip_reason |-> "no trend analysis"]
    ELSE IF analysis.recommendation = "SKIP"
         THEN [score |-> 0, skip_reason |-> analysis.reason]
    ELSE IF analysis.current_leg > max_allowed_leg
         THEN [score |-> 0, skip_reason |-> "leg > max allowed"]
    ELSE LET leg == analysis.current_leg
             leg_bonus == IF leg > 0 THEN (max_allowed_leg - leg + 1) * 20 ELSE 0
             pullback_bonus == IF analysis.is_pullback THEN 15 ELSE 0
             rr10 == calculate_rr_ratio_x10(signal)
             rr_bonus == IF rr10 < 30 THEN rr10 ELSE 30
         IN  [score |-> 100 + leg_bonus + pullback_bonus + rr_bonus,
              skip_reason |-> None]

\* signal_scorer.py 68-117
score_signal(signal, analysis, max_allowed_leg) ==
    IF analysis = NoAnalysis THEN [score |-> 0, skip_reason |-> "no trend analysis"]
    ELSE IF analysis.recommendation = "SKIP"
         THEN [score |-> 0, skip_reason |-> analysis.reason]
    ELSE IF analysis.current_leg > max_allowed_leg
         THEN [score |-> 0, skip_reason |-> "leg > max allowed"]
    ELSE LET leg == analysis.current_leg
             leg_bonus == IF leg > 0 THEN (max_allowed_leg - leg + 1) * 20 ELSE 0
             pullback_bonus == IF analysis.is_pullback THEN 15 ELSE 0
             rr10 == calculate_rr_ratio_x10(signal)
             rr_bonus == IF rr10 < 30 THEN rr10 ELSE 30
             late == IF analysis.recommendation = "LATE" THEN 20 ELSE 0
         IN  [score |-> 100 + leg_bonus + pullback_bonus + rr_bonus - late,
              skip_reason |-> None]

\* signal_scorer.py 173-184: the ScoredSignal of one signal.
ScoredSignal(sig, market) ==
    LET analysis == AnalysisOf(sig, market)
        r == score_signal(sig, analysis, MAX_ALLOWED_LEG)
    IN  [signal |-> sig, analysis |-> analysis, score |-> r.score,
         rr_ratio_x10 |-> calculate_rr_ratio_x10(sig), skip_reason |-> r.skip_reason]

RECURSIVE InsertByScore_BeforeEqual(_, _)
\* Mutant: an element goes in front of those with an equal score.
InsertByScore_BeforeEqual(x, list) ==
    IF list = <<>> THEN <<x>>
    ELSE IF Head(list).score > x.score
         THEN <<Head(list)>> \o InsertByScore_BeforeEqual(x, Tail(list))
         ELSE <<x>> \o list

RECURSIVE InsertByScore(_, _)
\* list.sort(key=score, reverse=True) is stable: an element comes after every
\* earlier element whose score is at least its own.
InsertByScore(x, list) ==
    IF list = <<>> THEN <<x>>
    ELSE IF Head(list).score >= x.score
         THEN <<Head(list)>> \o InsertByScore(x, Tail(list))
         ELSE <<x>> \o list

RECURSIVE SortByScore(_, _)
\* signal_scorer.py 194: scored.sort(key=lambda x: x.score, reverse=True)
SortByScore(list, sorted) ==
    IF list = <<>> THEN sorted
    ELSE SortByScore(Tail(list), InsertByScore(Head(list), sorted))

\* signal_scorer.py 120-196
score_signals_batch(batch) ==
    SortByScore([i \in DOMAIN batch |-> ScoredSignal(batch[i].signal, batch[i].market)], <<>>)

\* Mutant: the filter looks at the score alone and lets a zero through.
IsValidScored_ZeroPasses(s) == s.score >= 0

\* signal_scorer.py 216: s.skip_reason is None and s.score > 0
IsValidScored(s) == s.skip_reason = None /\ s.score > 0

\* signal_scorer.py 199-235
select_best_signals(scored_signals, max_count) ==
    LET valid == SelectSeq(scored_signals, IsValidScored)
        best == SubSeq(valid, 1, IF Len(valid) < max_count THEN Len(valid) ELSE max_count)
    IN  [i \in DOMAIN best |-> best[i].signal]

\* The batches of one cycle: up to MaxBatch signals, each with its market.
ScoreBatches ==
    UNION { { b \in [1..n -> [signal : UNION {ScoreSignals(i) : i \in 1..n},
                              market : Markets]] :
                \A i \in 1..n : b[i].signal \in ScoreSignals(i) } : n \in 1..MaxBatch }

InitScore ==
    /\ sc_batch \in ScoreBatches
    /\ sc_scored = <<>>
    /\ sc_best = <<>>
    /\ sc_exec = <<>>
    /\ sc_pc = "batch"

\* Everything the batch selection leaves alone.
OtherThanScore == <<life_vars, hash_vars, save_vars, entry_vars, update_vars, aux_vars>>

\* main.py 510-523: a batch of more than one signal is scored.
ScoreBatch ==
    /\ sc_pc = "batch"
    /\ SIGNAL_BATCH_ENABLED /\ Len(sc_batch) > 1
    /\ sc_scored' = score_signals_batch(sc_batch)
    /\ sc_pc' = "scored"
    /\ UNCHANGED <<sc_batch, sc_best, sc_exec, OtherThanScore>>

\* main.py 525-532: the best signals replace the batch.
SelectBestSignals ==
    /\ sc_pc = "scored"
    /\ sc_best' = select_best_signals(sc_scored, MAX_SIGNALS_PER_BATCH)
    /\ sc_exec' = sc_best'
    /\ sc_pc' = "exec"
    /\ UNCHANGED <<sc_batch, sc_scored, OtherThanScore>>

\* main.py 510: a batch of one signal skips the scorer and stays as it is.
KeepBatch ==
    /\ sc_pc = "batch"
    /\ ~(SIGNAL_BATCH_ENABLED /\ Len(sc_batch) > 1)
    /\ sc_exec' = [i \in DOMAIN sc_batch |-> sc_batch[i].signal]
    /\ sc_pc' = "exec"
    /\ UNCHANGED <<sc_batch, sc_scored, sc_best, OtherThanScore>>

\* main.py 537-540: the execute loop hands the signals to
\* engine.place_conditional_entry.
ExecuteBatch ==
    /\ sc_pc = "exec"
    /\ sc_pc' = "placed"
    /\ UNCHANGED <<sc_batch, sc_scored, sc_best, sc_exec, OtherThanScore>>

NextScore == ScoreBatch \/ SelectBestSignals \/ KeepBatch \/ ExecuteBatch

InitSpecScore ==
    InitLifeIdle /\ InitHashIdle /\ InitSaveIdle /\ InitIntake /\ InitDcaIdle /\ InitScore
    /\ InitAuxIdle

SpecScore == InitSpecScore /\ [][NextScore]_vars

\* The ScoredSignal of the signal that arrived at position sym.
ScoredFor(sym) ==
    CHOOSE e \in {sc_scored[k] : k \in DOMAIN sc_scored} : e.signal.symbol = sym

\* The batch went through the scorer and the selection is made.
Selected == sc_pc \in {"exec", "placed"} /\ sc_scored # <<>>

\* C18: a signal whose recommendation is SKIP has score 0, is not returned
\* by select_best_signals and is not handed to the execute loop, whatever
\* the size of the batch.
C18_SkipNeverPlaced ==
    /\ \A k \in DOMAIN sc_scored :
          sc_scored[k].analysis.recommendation = "SKIP" =>
              /\ sc_scored[k].score = 0
              /\ Selected => \A i \in DOMAIN sc_best : sc_best[i] # sc_scored[k].signal
    /\ sc_pc \in {"exec", "placed"} =>
          \A i \in DOMAIN sc_exec :
              LET e == sc_batch[sc_exec[i].symbol]
              IN  AnalysisOf(e.signal, e.market).recommendation # "SKIP"

\* The signal agrees with the direction of the trend it meets.
Aligned(e) ==
    \/ e.signal.side = "buy" /\ e.analysis.direction = "UP"
    \/ e.signal.side = "sell" /\ e.analysis.direction = "DOWN"

\* Signal A of the scenario: a long in an uptrend, leg 1, in pullback, with a
\* risk-reward ratio of 2.0.
IsSignalA(b) ==
    /\ b.signal.side = "buy" /\ calculate_rr_ratio_x10(b.signal) = 20
    /\ b.market = [kind |-> "trend", direction |-> "UP", leg |-> 1, pullback |-> TRUE]

\* Signal B of the scenario: an uptrend in leg 4.
IsSignalB(b) ==
    b.market = [kind |-> "trend", direction |-> "UP", leg |-> 4, pullback |-> FALSE]

\* The scenario: of a scored batch of A and B the top one is exactly A.
ScenarioTopOne ==
    \A i, j \in DOMAIN sc_batch :
        (Len(sc_batch) = 2 /\ sc_scored # <<>> /\ IsSignalA(sc_batch[i]) /\ IsSignalB(sc_batch[j]))
        => select_best_signals(sc_scored, 1) = <<sc_batch[i].signal>>

\* C19 as stated: in a scored batch every signal whose analysed leg exceeds
\* MAX_ALLOWED_LEG has score 0 and a skip reason citing the leg bound and is
\* not selected, and the scenario returns exactly A.
C19_LegBoundReasonAlways ==
    /\ \A k \in DOMAIN sc_scored :
          sc_scored[k].analysis.current_leg > MAX_ALLOWED_LEG =>
              /\ sc_scored[k].score = 0
              /\ sc_scored[k].skip_reason = "leg > max allowed"
              /\ Selected => \A i \in DOMAIN sc_best : sc_best[i] # sc_scored[k].signal
    /\ ScenarioTopOne

\* C19 amended: in a scored batch every signal whose analysed leg exceeds
\* MAX_ALLOWED_LEG has score 0 and a skip reason and is not selected; the
\* reason cites the leg bound when the signal agrees with the trend
\* direction and the direction when it does not; the scenario returns
\* exactly A.
C19_LegBoundExcludes ==
    /\ \A k \in DOMAIN sc_scored :
          sc_scored[k].analysis.current_leg > MAX_ALLOWED_LEG =>
              /\ sc_scored[k].score = 0
              /\ sc_scored[k].skip_reason =
                    (IF Aligned(sc_scored[k]) THEN "leg > max allowed"
                                              ELSE "signal against trend direction")
              /\ Selected => \A i \in DOMAIN sc_best : sc_best[i] # sc_scored[k].signal
    /\ ScenarioTopOne

\* C19 witness: the batch was B then A, both longs; B was skipped for its
\* leg and A alone was selected.
C19_Witness ==
    /\ Selected
    /\ Len(sc_batch) = 2
    /\ IsSignalB(sc_batch[1]) /\ sc_batch[1].signal.side = "buy"
    /\ IsSignalA(sc_batch[2])
    /\ ScoredFor(1).skip_reason = "leg > max allowed"
    /\ sc_best = <<sc_batch[2].signal>>

\* C20: the selection holds at most MAX_SIGNALS_PER_BATCH signals, each with
\* a score above 0 and no skip reason, in descending order of score, equal
\* scores in order of arrival, and scoring and selecting the same batch
\* again gives the same list.
C20_SelectionOrder ==
    Selected =>
        /\ Len(sc_best) <= MAX_SIGNALS_PER_BATCH
        /\ \A i \in DOMAIN sc_best :
              /\ ScoredFor(sc_best[i].symbol).score > 0
              /\ ScoredFor(sc_best[i].symbol).skip_reason = None
        /\ \A i, j \in DOMAIN sc_best :
              i < j =>
                 /\ ScoredFor(sc_best[i].symbol).score >= ScoredFor(sc_best[j].symbol).score
                 /\ ScoredFor(sc_best[i].symbol).score = ScoredFor(sc_best[j].symbol).score
                       => sc_best[i].symbol < sc_best[j].symbol
        /\ sc_best = select_best_signals(score_signals_batch(sc_batch), MAX_SIGNALS_PER_BATCH)

\* C20 witness: three signals with the same positive score arrived; the
\* first two were selected, in their order of arrival.
C20_Witness ==
    /\ Selected
    /\ Len(sc_scored) = 3
    /\ \A k \in DOMAIN sc_scored :
          sc_scored[k].score = sc_scored[1].score /\ sc_scored[k].score > 0
    /\ sc_best = <<sc_batch[1].signal, sc_batch[2].signal>>

\* ================================================ scorer failure semantics
\* The loop of score_signals_batch (signal_scorer.py 146-196), one signal
\* per step, with the calls that can fail.

\* The calls of the loop body in their order (158-174) ...
LoopBody == <<"timeframe_to_interval", "klines", "analyze_trend", "score_signal",
              "calculate_rr_ratio">>

\* Mutant: the candle fetch stands before the try.
TryBlock_FetchOutside == {"analyze_trend"}

\* ... and those of them inside try/except Exception (157-171).
TryBlock == {"timeframe_to_interval", "klines", "analyze_trend"}

\* What the exchange and the candles do to the scoring of one signal: the
\* fetch raises, fewer than 50 candles come back, the analysis raises on the
\* candles, or one of the markets of above.
LoopMarkets ==
    { [kind |-> k, direction |-> "NEUTRAL", leg |-> 0, pullback |-> FALSE] :
          k \in {"fetch_raises", "few_candles", "analysis_raises", "few"} }
    \cup { m \in Markets : m.kind = "trend" /\ m.leg # 3 /\ ~m.pullback }

FailureKinds == {"fetch_raises", "few_candles", "analysis_raises"}

\* The call of the loop body that raises for this market.
RaisingCall(market) ==
    CASE market.kind = "fetch_raises" -> "klines"
      [] market.kind = "analysis_raises" -> "analyze_trend"
      [] OTHER -> "nothing"

\* The exception is not caught inside the loop body.
Escapes(market) ==
    /\ RaisingCall(market) \in {LoopBody[k] : k \in DOMAIN LoopBody}
    /\ RaisingCall(market) \notin TryBlock

\* signal_scorer.py 157-171: analysis stays None unless the try block runs
\* to its end with at least 50 candles.
LoopAnalysis(sig, market) ==
    IF market.kind \in FailureKinds THEN NoAnalysis
    ELSE analyze_trend(market, sig.side, MAX_ALLOWED_LEG)

\* signal_scorer.py 173-184
LoopScored(sig, market) ==
    LET analysis == LoopAnalysis(sig, market)
        r == score_signal(sig, analysis, MAX_ALLOWED_LEG)
    IN  [signal |-> sig, analysis |-> analysis, score |-> r.score,
         rr_ratio_x10 |-> calculate_rr_ratio_x10(sig), skip_reason |-> r.skip_reason]

LoopBatches ==
    UNION { { b \in [1..n -> [signal : UNION {ScoreSignals(i) : i \in 1..n},
                              market : LoopMarkets]] :
                \A i \in 1..n : b[i].signal \in ScoreSignals(i) } : n \in 1..MaxBatch }

InitLoop ==
    /\ sc_batch \in LoopBatches
    /\ sc_scored = <<>>
    /\ sc_best = <<>>
    /\ sc_exec = <<>>
    /\ sc_pc = "loop"

\* signal_scorer.py 148-184: the body of the loop for the next signal.
ScoreOne ==
    /\ sc_pc = "loop"
    /\ Len(sc_scored) < Len(sc_batch)
    /\ LET b == sc_batch[Len(sc_scored) + 1]
       IN  IF Escapes(b.market)
           THEN sc_pc' = "raised" /\ UNCHANGED sc_scored
           ELSE /\ sc_scored' = Append(sc_scored, LoopScored(b.signal, b.market))
                /\ UNCHANGED sc_pc
    /\ UNCHANGED <<sc_batch, sc_best, sc_exec, OtherThanScore>>

\* signal_scorer.py 194-196: sort and return.
SortScored ==
    /\ sc_pc = "loop"
    /\ Len(sc_scored) = Len(sc_batch)
    /\ sc_scored' = SortByScore(sc_scored, <<>>)
    /\ sc_pc' = "returned"
    /\ UNCHANGED <<sc_batch, sc_best, sc_exec, OtherThanScore>>

NextLoop == ScoreOne \/ SortScored

InitSpecLoop ==
    InitLifeIdle /\ InitHashIdle /\ InitSaveIdle /\ InitIntake /\ InitDcaIdle /\ InitLoop
    /\ InitAuxIdle

SpecLoop == InitSpecLoop /\ [][NextLoop]_vars

\* C21: no exception leaves score_signals_batch; a signal whose candle fetch
\* or analysis failed or that had fewer than 50 candles has score 0 and a
\* skip reason; and the returned list holds a ScoredSignal for every signal
\* of the batch.
C21_ScorerFailuresDegrade ==
    /\ sc_pc # "raised"
    /\ \A k \in DOMAIN sc_scored :
          sc_batch[sc_scored[k].signal.symbol].market.kind \in FailureKinds =>
              /\ sc_scored[k].score = 0
              /\ sc_scored[k].skip_reason \notin {None, ""}
    /\ sc_pc = "returned" =>
          {sc_scored[k].signal : k \in DOMAIN sc_scored}
              = {sc_batch[i].signal : i \in DOMAIN sc_batch}

\* C21 witness: the fetch for the first signal raised, the analysis of the
\* second raised, and the third signal was scored above 0 and leads the
\* returned list.
C21_Witness ==
    /\ sc_pc = "returned"
    /\ Len(sc_batch) = 3
    /\ sc_batch[1].market.kind = "fetch_raises"
    /\ sc_batch[2].market.kind = "analysis_raises"
    /\ sc_scored[1].signal = sc_batch[3].signal
    /\ sc_scored[1].score > 0
    /\ sc_scored[2].score = 0 /\ sc_scored[3].score = 0

\* ================================================ the guard of the iteration
\* C22: an exception raised inside an iteration, other than a keyboard
\* interrupt, never leaves the control loop: it is caught by the outer
\* guard, and from the handler the loop goes nowhere but to the start of its
\* next iteration.
C22_LoopSurvivesErrors ==
    [][/\ loop_pc' # "dead"
       /\ loop_pc = "caught" => loop_pc' \in {"caught", "maint"}]_vars

\* C22 witness: the position query for a pending trade has raised and the
\* handler holds the exception, the trade still in the book.
C22_Witness ==
    /\ loop_pc = "caught"
    /\ \E id \in DOMAIN st_open_trades : st_open_trades[id].status = "pending"

\* ============================================================ staleness cap
\* The ingestion loop of one fetch with the age check (main.py 459-468) and
\* the execute loop that places the entries of the batch (537-579).

\* Seconds of the clock and of the message timestamps.
MaxClock == 5

\* config.py 70, in the seconds of this clock.
TC_MAX_LAG_SEC == 2

\* Messages of one fetch.
MaxMsgs == 2

\* DiscordReader.message_timestamp_unix, the feed client's timestampOf:
\* the unix seconds at which the message was posted.
message_timestamp_unix(m) == m.timestamp

\* Mutant: no message is old.
IsStale_Never(ts, age) == FALSE

\* main.py 466: the age test; a message without a timestamp passes.
IsStale(ts, age) == ts # 0 /\ age > TC_MAX_LAG_SEC

\* main.py 465
AgeOf(ts, t) == IF ts # 0 THEN t - ts ELSE 0

\* The fetches: messages with rising ids, each posted at some second and
\* carrying one signal.
Fetches ==
    UNION { [1..n -> [id : 1..MaxMsgs, timestamp : 1..MaxClock]] : n \in 1..MaxMsgs }

InitStale ==
    /\ msgs_sorted \in { f \in Fetches : \A i \in DOMAIN f : f[i].id = i }
    /\ msg_i = 1
    /\ msg_now \in 1..MaxClock
    /\ msg_age = [i \in DOMAIN msgs_sorted |-> -1]
    /\ msg_batch = <<>>
    /\ msg_placed = {}
    /\ msg_pc = "ingest"

OtherThanStale ==
    <<life_vars, hash_vars, save_vars, entry_vars, update_vars, score_vars, store_vars,
      split_vars, ws_vars, parse_vars, late_vars>>

\* A second passes.
StaleTick ==
    /\ msg_now < MaxClock
    /\ msg_now' = msg_now + 1
    /\ UNCHANGED <<msgs_sorted, msg_i, msg_age, msg_batch, msg_placed, msg_pc, OtherThanStale>>

\* main.py 459-502: the loop body for the next message. The age the message
\* has at this moment is kept in msg_age.
IngestMessage ==
    /\ msg_pc = "ingest"
    /\ msg_i <= Len(msgs_sorted)
    /\ LET m == msgs_sorted[msg_i]
           ts == message_timestamp_unix(m)
           age == AgeOf(ts, msg_now)
       IN  /\ msg_age' = [msg_age EXCEPT ![m.id] = msg_now - m.timestamp]
           /\ msg_batch' = IF IsStale(ts, age) THEN msg_batch ELSE Append(msg_batch, m.id)
    /\ msg_i' = msg_i + 1
    /\ UNCHANGED <<msgs_sorted, msg_now, msg_placed, msg_pc, OtherThanStale>>

\* main.py 505-536: the loop is over; the batch goes to the execute loop.
IngestDone ==
    /\ msg_pc = "ingest"
    /\ msg_i > Len(msgs_sorted)
    /\ msg_pc' = "exec"
    /\ UNCHANGED <<msgs_sorted, msg_i, msg_now, msg_age, msg_batch, msg_placed, OtherThanStale>>

\* main.py 537-579: the entry order for the next signal of the batch.
ExecuteSignal ==
    /\ msg_pc = "exec"
    /\ msg_batch # <<>>
    /\ msg_placed' = msg_placed \cup {Head(msg_batch)}
    /\ msg_batch' = Tail(msg_batch)
    /\ UNCHANGED <<msgs_sorted, msg_i, msg_now, msg_age, msg_pc, OtherThanStale>>

NextStale == StaleTick \/ IngestMessage \/ IngestDone \/ ExecuteSignal

InitSpecStale ==
    InitLifeIdle /\ InitHashIdle /\ InitSaveIdle /\ InitIntake /\ InitDcaIdle
    /\ InitScoreIdle /\ InitStale /\ InitStoreIdle /\ InitSplitsIdle /\ InitWsIdle
    /\ InitParseIdle /\ InitLateIdle

SpecStale == InitSpecStale /\ [][NextStale]_vars

PyNone == [ty |-> "NoneType"]
PyBool(b) == [ty |-> "bool", b |-> b]
PyInt(n) == [ty |-> "int", n |-> n]
PyFloat(x10) == [ty |-> "float", x10 |-> x10]          \* the float x10 / 10
PyStr(str) == [ty |-> "str", s |-> str]
PyList(items) == [ty |-> "list", items |-> items]
\* a dict keeps its keys in the order of insertion
PyDict(keys, vals) == [ty |-> "dict", keys |-> keys, vals |-> vals]

Tok(k) == [tk |-> k]

RECURSIVE dumps(_)
RECURSIVE DumpItems(_, _)
RECURSIVE DumpPairs(_, _, _)
\* json.dumps(st, ensure_ascii=False, separators=(",", ":")), state.py 29
dumps(v) ==
    CASE v.ty = "NoneType" -> <<Tok("null")>>
      [] v.ty = "bool" -> <<Tok(IF v.b THEN "true" ELSE "false")>>
      [] v.ty = "int" -> <<[tk |-> "int", n |-> v.n]>>
      [] v.ty = "float" -> <<[tk |-> "float", x10 |-> v.x10]>>
      [] v.ty = "str" -> <<[tk |-> "string", s |-> v.s]>>
      [] v.ty = "list" -> <<Tok("[")>> \o DumpItems(v.items, 1) \o <<Tok("]")>>
      [] v.ty = "dict" -> <<Tok("{")>> \o DumpPairs(v.keys, v.vals, 1) \o <<Tok("}")>>

DumpItems(items, i) ==
    IF i > Len(items) THEN <<>>
    ELSE (IF i > 1 THEN <<Tok(",")>> ELSE <<>>) \o dumps(items[i]) \o DumpItems(items, i + 1)

DumpPairs(keys, vals, i) ==
    IF i > Len(keys) THEN <<>>
    ELSE (IF i > 1 THEN <<Tok(",")>> ELSE <<>>)
         \o <<[tk |-> "string", s |-> keys[i]], Tok(":")>> \o dumps(vals[i])
         \o DumpPairs(keys, vals, i + 1)

\* The decoder's results: a value and the position after it, or an error.
Decoded(v, i) == [ok |-> TRUE, v |-> v, i |-> i]
JSONDecodeError == [ok |-> FALSE]

\* Mutant: every number is decoded as a float.
LoadNumber_AlwaysFloat(tok) ==
    IF tok.tk = "int" THEN PyFloat(tok.n * 10) ELSE PyFloat(tok.x10)

\* json.loads on a number: digits alone give an int, digits with a fraction
\* a float.
LoadNumber(tok) ==
    IF tok.tk = "int" THEN PyInt(tok.n) ELSE PyFloat(tok.x10)

\* dict[key] = val: a key that is there keeps its place and gets the value.
DictPut(keys, vals, key, val) ==
    IF \E k \in DOMAIN keys : keys[k] = key
    THEN [keys |-> keys,
          vals |-> [k \in DOMAIN vals |-> IF keys[k] = key THEN val ELSE vals[k]]]
    ELSE [keys |-> Append(keys, key), vals |-> Append(vals, val)]

RECURSIVE ParseValue(_, _)
RECURSIVE ParseItems(_, _, _)
RECURSIVE ParsePairs(_, _, _, _)
\* json.loads, state.py 16: the value that begins at token i.
ParseValue(t, i) ==
    IF i > Len(t) THEN JSONDecodeError
    ELSE CASE t[i].tk = "null" -> Decoded(PyNone, i + 1)
           [] t[i].tk = "true" -> Decoded(PyBool(TRUE), i + 1)
           [] t[i].tk = "false" -> Decoded(PyBool(FALSE), i + 1)
           [] t[i].tk \in {"int", "float"} -> Decoded(LoadNumber(t[i]), i + 1)
           [] t[i].tk = "string" -> Decoded(PyStr(t[i].s), i + 1)
           [] t[i].tk = "[" ->
                IF i + 1 <= Len(t) /\ t[i + 1].tk = "]"
                THEN Decoded(PyList(<<>>), i + 2)
                ELSE ParseItems(t, i + 1, <<>>)
           [] t[i].tk = "{" ->
                IF i + 1 <= Len(t) /\ t[i + 1].tk = "}"
                THEN Decoded(PyDict(<<>>, <<>>), i + 2)
                ELSE ParsePairs(t, i + 1, <<>>, <<>>)
           [] OTHER -> JSONDecodeError

ParseItems(t, i, acc) ==
    LET r == ParseValue(t, i)
    IN  IF ~r.ok THEN JSONDecodeError
        ELSE IF r.i > Len(t) THEN JSONDecodeError
        ELSE IF t[r.i].tk = "," THEN ParseItems(t, r.i + 1, Append(acc, r.v))
        ELSE IF t[r.i].tk = "]" THEN Decoded(PyList(Append(acc, r.v)), r.i + 1)
        ELSE JSONDecodeError

ParsePairs(t, i, keys, vals) ==
    IF i + 1 > Len(t) THEN JSONDecodeError
    ELSE IF t[i].tk # "string" \/ t[i + 1].tk # ":" THEN JSONDecodeError
    ELSE LET r == ParseValue(t, i + 2)
         IN  IF ~r.ok THEN JSONDecodeError
             ELSE IF r.i > Len(t) THEN JSONDecodeError
             ELSE LET d == DictPut(keys, vals, t[i].s, r.v)
                  IN  IF t[r.i].tk = "," THEN ParsePairs(t, r.i + 1, d.keys, d.vals)
                      ELSE IF t[r.i].tk = "}" THEN Decoded(PyDict(d.keys, d.vals), r.i + 1)
                      ELSE JSONDecodeError

\* json.loads: one value and nothing after it.
loads(t) ==
    LET r == ParseValue(t, 1)
    IN  IF r.ok THEN (IF r.i = Len(t) + 1 THEN r ELSE JSONDecodeError) ELSE r

\* state.py 19-24
DefaultState ==
    PyDict(<<"last_discord_id", "open_trades", "daily_counts", "seen_signal_hashes">>,
           <<PyNone, PyDict(<<>>, <<>>), PyDict(<<>>, <<>>), PyList(<<>>)>>)

\* Mutant: the try of load_state has no except clause.
load_state_NoExcept(file) ==
    IF file.kind = "missing" THEN [raised |-> FALSE, st |-> DefaultState]
    ELSE IF file.kind = "unreadable" \/ ~loads(file.text).ok
         THEN [raised |-> TRUE, st |-> PyNone]
         ELSE [raised |-> FALSE, st |-> loads(file.text).v]

\* state.py 12-24: read_text raises on a file that cannot be read or decoded
\* and json.loads on a text that is no JSON; both inside try/except
\* Exception: pass.
load_state(file) ==
    IF file.kind = "missing" THEN [raised |-> FALSE, st |-> DefaultState]
    ELSE IF file.kind = "unreadable" \/ ~loads(file.text).ok
         THEN [raised |-> FALSE, st |-> DefaultState]
         ELSE [raised |-> FALSE, st |-> loads(file.text).v]

\* state.py 26-30: the text goes to the temp file, which replaces the file.
save_state(st) == [kind |-> "json", text |-> dumps(st)]

\* Trades as main.py 550-572 stores them (some of the fields).
TradeDocs ==
    { PyDict(<<"id", "trigger", "tp_prices", "tp_splits", "sl_price", "status",
               "discord_msg_id", "post_orders_placed">>,
             <<PyStr("T1"), PyFloat(1005), PyList(tps), PyNone, sl, PyStr(status),
               PyInt(7), PyBool(placed)>>) :
          tps \in {<<>>, <<PyFloat(1040)>>, <<PyFloat(1040), PyFloat(1070)>>},
          sl \in {PyNone, PyFloat(980)},
          status \in {"pending", "open"},
          placed \in BOOLEAN }

\* Aggregates of the data model (state.py 19-24; main.py 505, 550-573, 581).
Aggregates ==
    { PyDict(<<"last_discord_id", "open_trades", "daily_counts", "seen_signal_hashes">>,
             <<cursor, trades, counts, PyList(hashes)>>) :
          cursor \in {PyNone, PyStr("17")},
          trades \in {PyDict(<<>>, <<>>)} \cup {PyDict(<<"T1">>, <<tr>>) : tr \in TradeDocs},
          counts \in {PyDict(<<>>, <<>>), PyDict(<<"2026-11-01">>, <<PyInt(1)>>)},
          hashes \in {<<>>, <<PyStr("h1")>>, <<PyStr("h1"), PyStr("h2")>>} }

\* Texts that are no JSON document: an empty file, a file cut off inside
\* the document, a dict without its colon, two documents in a row.
GarbageTexts ==
    { <<>>,
      <<Tok("{"), [tk |-> "string", s |-> "open_trades"], Tok(":"), Tok("{")>>,
      <<Tok("{"), [tk |-> "string", s |-> "open_trades"], Tok("}")>>,
      <<Tok("{"), Tok("}"), Tok("{"), Tok("}")>>,
      <<Tok("["), [tk |-> "int", n |-> 1], Tok(",")>> }

\* What process start can find at STATE_FILE.
StartFiles ==
    {[kind |-> "missing", text |-> <<>>]}
    \cup {[kind |-> k, text |-> dumps(a)] : k \in {"unreadable", "json"}, a \in Aggregates}
    \cup {[kind |-> "garbage", text |-> t] : t \in GarbageTexts}

InitStore ==
    /\ store_docs = <<>>
    /\ store_raised = FALSE
    /\ \/ /\ store_pc = "start"
          /\ store_file \in StartFiles
          /\ store_st = PyNone
       \/ /\ store_pc = "mem"
          /\ store_file = [kind |-> "missing", text |-> <<>>]
          /\ store_st \in Aggregates

OtherThanStore ==
    <<life_vars, hash_vars, save_vars, entry_vars, update_vars, score_vars, stale_vars,
      split_vars, ws_vars, parse_vars, late_vars>>

\* main.py 85: st = load_state(STATE_FILE)
StoreLoad ==
    /\ store_pc \in {"start", "saved"}
    /\ LET r == load_state(store_file)
       IN  /\ store_raised' = r.raised
           /\ store_st' = r.st
    /\ store_pc' = "loaded"
    /\ UNCHANGED <<store_file, store_docs, OtherThanStore>>

\* main.py 283, 375, 601: save_state(STATE_FILE, st)
StoreSave ==
    /\ store_pc \in {"mem", "loaded"}
    /\ ~store_raised
    /\ Len(store_docs) < 2
    /\ store_file' = save_state(store_st)
    /\ store_docs' = Append(store_docs, dumps(store_st))
    /\ store_pc' = "saved"
    /\ UNCHANGED <<store_st, store_raised, OtherThanStore>>

NextStore == StoreLoad \/ StoreSave

InitSpecStore ==
    InitLifeIdle /\ InitHashIdle /\ InitSaveIdle /\ InitIntake /\ InitDcaIdle
    /\ InitScoreIdle /\ InitStaleIdle /\ InitStore /\ InitSplitsIdle /\ InitWsIdle
    /\ InitParseIdle /\ InitLateIdle

SpecStore == InitSpecStore /\ [][NextStore]_vars

\* C24: saving, loading what was saved and saving again writes the document
\* of the first save once more; and the aggregate that was loaded in between
\* is the one that was saved.
C24_SaveLoadSaveSameDocument ==
    /\ Len(store_docs) = 2 => store_docs[2] = store_docs[1]
    /\ (store_pc = "loaded" /\ Len(store_docs) = 1) => dumps(store_st) = store_docs[1]

\* C24 witness: an aggregate with a cursor, a trade with two take-profits,
\* a daily count and two hashes has been saved, loaded and saved again.
C24_Witness ==
    /\ Len(store_docs) = 2
    /\ store_st.ty = "dict"
    /\ store_st.vals[1] = PyStr("17")
    /\ store_st.vals[2].keys = <<"T1">>
    /\ Len(store_st.vals[2].vals[1].vals[3].items) = 2
    /\ store_st.vals[3].keys # <<>>
    /\ Len(store_st.vals[4].items) = 2

MantissaBits == 53

\* Splits in one setting.
MaxSplits == 3

RECURSIVE Pow2(_)
Pow2(k) == IF k = 0 THEN 1 ELSE 2 * Pow2(k - 1)

Rev(q) == [i \in 1..Len(q) |-> q[Len(q) + 1 - i]]

Zeros(k) == [i \in 1..k |-> 0]

RECURSIVE IntBits(_)
\* The bits of a whole number, least significant first.
IntBits(n) == IF n = 0 THEN <<>> ELSE <<n % 2>> \o IntBits(n \div 2)

\* Bits taken in one step of the long arithmetic below: at most 13, so that
\* every intermediate value stays a machine integer of the checker.
Limb(k) == IF k < 13 THEN k ELSE 13

\* The k bits of n < 2^k, least significant first.
LowBits(n, k) == [i \in 1..k |-> (n \div Pow2(i - 1)) % 2]

RECURSIVE ValueOf(_)
\* The whole number of a short bit sequence, least significant first.
ValueOf(a) == IF a = <<>> THEN 0 ELSE Head(a) + 2 * ValueOf(Tail(a))

\* The first k bits of a, with zeros where a has ended.
Low(a, k) == [i \in 1..k |-> IF i <= Len(a) THEN a[i] ELSE 0]

\* a without its first k bits.
Above(a, k) == IF Len(a) <= k THEN <<>> ELSE SubSeq(a, k + 1, Len(a))

RECURSIVE AddBits(_, _, _)
\* The sum of two whole numbers and a carry.
AddBits(a, b, c) ==
    IF a = <<>> /\ b = <<>> THEN (IF c = 0 THEN <<>> ELSE <<1>>)
    ELSE LET k == Limb(IF Len(a) > Len(b) THEN Len(a) ELSE Len(b))
             t == ValueOf(Low(a, k)) + ValueOf(Low(b, k)) + c
         IN  LowBits(t % Pow2(k), k) \o AddBits(Above(a, k), Above(b, k), t \div Pow2(k))

\* Without the zeros above the highest set bit.
Trim(a) ==
    LET set == {i \in 1..Len(a) : a[i] = 1}
    IN  IF set = {} THEN <<>>
        ELSE SubSeq(a, 1, CHOOSE i \in set : \A j \in set : j <= i)

\* a > b for whole numbers of the same length.
GreaterFrom(a, b) ==
    LET diff == {i \in 1..Len(a) : a[i] # b[i]}
    IN  diff # {} /\ LET i == CHOOSE k \in diff : \A j \in diff : j <= k
                     IN  a[i] > b[i]

\* a > b for whole numbers
BitsGreater(a, b) ==
    LET x == Trim(a)
        y == Trim(b)
    IN  IF Len(x) # Len(y) THEN Len(x) > Len(y) ELSE GreaterFrom(x, y)

FloatZero == [m |-> <<>>, e |-> 0]

\* float(n) for a whole number below 2^MantissaBits: exact.
FloatOfInt(n) ==
    IF n = 0 THEN FloatZero
    ELSE LET b == Rev(IntBits(n))
         IN  [m |-> b \o Zeros(MantissaBits - Len(b)), e |-> Len(b) - 1]

RECURSIVE DivBits(_, _, _)
\* The next k bits of r / den for r < den, and the remainder.
DivBits(r, den, k) ==
    IF k = 0 THEN [bits |-> <<>>, r |-> r]
    ELSE LET n == Limb(k)
             q == (r * Pow2(n)) \div den
             rest == DivBits((r * Pow2(n)) % den, den, k - n)
         IN  [bits |-> Rev(LowBits(q, n)) \o rest.bits, r |-> rest.r]

\* The significand plus one unit in its last place.
NextUp(f) ==
    LET up == AddBits(Rev(f.m), <<1>>, 0)
    IN  IF Len(up) > MantissaBits
        THEN [m |-> SubSeq(Rev(up), 1, MantissaBits), e |-> f.e + 1]
        ELSE [m |-> Rev(up), e |-> f.e]

\* Round to nearest, ties to even: f is the quotient cut off after
\* MantissaBits bits, r / den what was cut off, in units of the last place.
RoundQuotient(f, r, den) ==
    IF 2 * r > den \/ (2 * r = den /\ f.m[MantissaBits] = 1) THEN NextUp(f) ELSE f

\* a / s in floats for whole numbers a and s > 0, as x * 100.0 / s at
\* config.py 175 for a whole x (x * 100.0 is exact).
FloatDiv(a, s) ==
    IF a = 0 THEN FloatZero
    ELSE LET e == CHOOSE k \in -9..14 :
                     IF k >= 0 THEN s * Pow2(k) <= a /\ a < s * Pow2(k + 1)
                     ELSE s <= a * Pow2(-k) /\ a * Pow2(-k) < 2 * s
             num == IF e >= 0 THEN a ELSE a * Pow2(-e)
             den == IF e >= 0 THEN s * Pow2(e) ELSE s
             q == DivBits(num - den, den, MantissaBits - 1)
         IN  RoundQuotient([m |-> <<1>> \o q.bits, e |-> e], q.r, den)

RECURSIVE SumInts(_)
SumInts(q) == IF q = <<>> THEN 0 ELSE Head(q) + SumInts(Tail(q))

\* The exponent of the last bit of f.
LastPlace(f) == f.e - (MantissaBits - 1)

\* The whole number f / 2^low for a float f with LastPlace(f) >= low.
Scaled(f, low) ==
    IF f.m = <<>> THEN <<>> ELSE Zeros(LastPlace(f) - low) \o Rev(f.m)

RECURSIVE SumScaled(_, _)
SumScaled(fs, low) ==
    IF fs = <<>> THEN <<>> ELSE AddBits(Scaled(Head(fs), low), SumScaled(Tail(fs), low), 0)

\* The sum of the floats, taken exactly, is greater than the whole number n.
ExactSumExceeds(fs, n) ==
    LET low == -(MantissaBits + 8)
    IN  BitsGreater(SumScaled(fs, low), Zeros(-low) \o IntBits(n))

\* config.py 171-175: the list of floats, renormalised when its sum is
\* over 100.0. The settings here are whole numbers, whose floats and whose
\* sum are exact.
LoadTpSplits(raw) ==
    IF SumInts(raw) > 100
    THEN [i \in DOMAIN raw |-> FloatDiv(raw[i] * 100, SumInts(raw))]
    ELSE [i \in DOMAIN raw |-> FloatOfInt(raw[i])]

\* Numbers a setting is made of.
SplitValues == {5, 10, 20, 25, 30, 35, 40, 50, 60, 70, 80, 100}

InitSplits ==
    /\ tp_env \in UNION { [1..n -> SplitValues] : n \in 1..MaxSplits }
    /\ TP_SPLITS = <<>>
    /\ cfg_pc = "env"

OtherThanSplits ==
    <<life_vars, hash_vars, save_vars, entry_vars, update_vars, score_vars, stale_vars,
      store_vars, ws_vars, parse_vars, late_vars>>

\* config.py 171-175 at import.
LoadConfig ==
    /\ cfg_pc = "env"
    /\ TP_SPLITS' = LoadTpSplits(tp_env)
    /\ cfg_pc' = "loaded"
    /\ UNCHANGED <<tp_env, OtherThanSplits>>

NextSplits == LoadConfig

InitSpecSplits ==
    InitLifeIdle /\ InitHashIdle /\ InitSaveIdle /\ InitIntake /\ InitDcaIdle
    /\ InitScoreIdle /\ InitStaleIdle /\ InitStoreIdle /\ InitSplits /\ InitWsIdle
    /\ InitParseIdle /\ InitLateIdle

SpecSplits == InitSpecSplits /\ [][NextSplits]_vars

\* C26: after config.py has run the splits sum to at most 100; they differ
\* from the setting only when the setting's sum is over 100; a setting with
\* a sum of at most 100 is kept as it is.
C26_SplitsAtMostHundred ==
    cfg_pc = "loaded" =>
        /\ ~ExactSumExceeds(TP_SPLITS, 100)
        /\ SumInts(tp_env) <= 100 => TP_SPLITS = [i \in DOMAIN tp_env |-> FloatOfInt(tp_env[i])]

\* ========================================================== push listener
\* The listener thread (main.py 286-311): ws_loop around
\* bybit.run_private_ws, and the execution handler it is given.

\* Calls of run_private_ws in a run of the model.
MaxRuns == 4

\* Execution events in a run of the model.
MaxEvents == 3

\* How a call of run_private_ws ends.
StreamEnds == {"returned", "Exception"}

\* Mutant: ws_loop calls run_private_ws once, without try and without loop.
ws_loop_Once(how) == "dead"

\* main.py 304-309: where ws_loop is after the call has ended. A return
\* falls through to the sleep, an exception is handed to on_ws_error first;
\* both are inside `while True`.
ws_loop(how) ==
    CASE how = "returned" -> "sleep"
      [] how = "Exception" -> "sleep"
      [] OTHER -> "dead"

\* main.py 288-292: on_execution; what leaves it when engine.on_execution
\* raises or returns.
WsHandler(raises) == IF raises THEN "warning logged" ELSE "done"

InitWs ==
    /\ ws_pc = "subscribed"
    /\ ws_err = "None"
    /\ ws_runs = 1
    /\ ws_handled = 0
    /\ ws_warned = 0

OtherThanWs ==
    <<life_vars, hash_vars, save_vars, entry_vars, update_vars, score_vars, stale_vars,
      store_vars, split_vars, parse_vars, late_vars>>

\* The stream delivers an execution event; on_execution (288-292) runs.
WsEvent ==
    /\ ws_pc = "subscribed"
    /\ ws_handled < MaxEvents
    /\ ws_handled' = ws_handled + 1
    /\ \E raises \in BOOLEAN :
         IF WsHandler(raises) = "warning logged"
         THEN ws_warned' = ws_warned + 1 /\ UNCHANGED ws_pc
         ELSE IF WsHandler(raises) = "done"
         THEN UNCHANGED <<ws_warned, ws_pc>>
         ELSE ws_pc' = "dead" /\ UNCHANGED ws_warned
    /\ UNCHANGED <<ws_err, ws_runs, OtherThanWs>>

\* The client reports an error through on_error (300-302) and goes on.
WsClientError ==
    /\ ws_pc = "subscribed"
    /\ ws_err' = "reported"
    /\ UNCHANGED <<ws_pc, ws_runs, ws_handled, ws_warned, OtherThanWs>>

\* main.py 305-309: run_private_ws returns or raises.
WsStreamEnds ==
    /\ ws_pc = "subscribed"
    /\ ws_runs < MaxRuns
    /\ \E how \in StreamEnds :
         /\ ws_pc' = ws_loop(how)
         /\ ws_err' = IF how = "Exception" THEN "Exception" ELSE ws_err
    /\ UNCHANGED <<ws_runs, ws_handled, ws_warned, OtherThanWs>>

\* main.py 310, 305-307: the sleep of three seconds is over and ws_loop
\* calls run_private_ws again.
WsSubscribe ==
    /\ ws_pc = "sleep"
    /\ ws_pc' = "subscribed"
    /\ ws_runs' = ws_runs + 1
    /\ UNCHANGED <<ws_err, ws_handled, ws_warned, OtherThanWs>>

NextWs == WsEvent \/ WsClientError \/ WsStreamEnds \/ WsSubscribe

InitSpecWs ==
    InitLifeIdle /\ InitHashIdle /\ InitSaveIdle /\ InitIntake /\ InitDcaIdle
    /\ InitScoreIdle /\ InitStaleIdle /\ InitStoreIdle /\ InitSplitsIdle /\ InitWs
    /\ InitParseIdle /\ InitLateIdle

\* The thread is scheduled: a sleep of three seconds ends.
SpecWs == InitSpecWs /\ [][NextWs]_vars /\ WF_vars(WsSubscribe)

\* C27: the listener thread never ends; whenever the stream has returned or
\* raised, the thread subscribes again after its sleep; and an execution
\* event whose handler raised leaves the subscription as it was.
C27_ListenerReconnects ==
    /\ [](ws_pc # "dead")
    /\ (ws_pc = "sleep") ~> (ws_pc = "subscribed")
    /\ [][ws_warned' # ws_warned => ws_pc' = ws_pc]_vars

\* C27 witness: the stream has raised, the thread subscribed again, and in
\* the new subscription a handler error was logged.
C27_Witness ==
    /\ ws_pc = "subscribed"
    /\ ws_runs = 2
    /\ ws_err = "Exception"
    /\ ws_handled = 1 /\ ws_warned = 1

\* ================================================================ v2 parser
\* parse_signal of signal_parser_v2.py on a message given line by line. A
\* line is its kind, its words w, for the side line the base and the quote
\* of the symbol, a number as the text writes it (whole part and two
\* decimals) and for a TP line its index.

TextLine(k, w, base, quote, n, idx) ==
    [k |-> k, w |-> w, base |-> base, quote |-> quote, n |-> n, idx |-> idx]

\* str.upper() and re.I on the words that occur.
Upper(w) ==
    IF w = "Trade closed without entry" THEN "TRADE CLOSED WITHOUT ENTRY" ELSE w

\* float() of the text NUM matched (signal_parser_v2.py 5), in hundredths.
FloatOfNum(n) == n[1] * 100 + n[2]

\* Mutant: no message counts as closed.
MatchesClosed_Never(text) == FALSE

\* signal_parser_v2.py 70-74 and 91: RE_CLOSED.search(text)
MatchesClosed(text) ==
    \E i \in DOMAIN text :
        Upper(text[i].w) \in {"TRADE CLOSED", "CLOSED AT BREAKEVEN", "TRADE CANCELLED",
                              "TRADE CLOSED WITHOUT ENTRY"}

\* signal_parser_v2.py 33-36 and 95: the lines RE_SIDE_SYMBOL matches.
SideMatches(text) ==
    { i \in DOMAIN text :
        /\ text[i].k = "side"
        /\ Upper(text[i].w) \in {"BUY", "SELL"}
        /\ Upper(text[i].quote) \in {"USDT", "USDC", "BUSD"} }

\* signal_parser_v2.py 115-117: pad the list with 0.0 up to idx and set the
\* entry idx.
SetTp(tps, idx, price) ==
    [j \in 1..(IF Len(tps) < idx THEN idx ELSE Len(tps)) |->
        IF j = idx THEN price ELSE IF j <= Len(tps) THEN tps[j] ELSE 0]

RECURSIVE CollectTps(_, _, _)
\* signal_parser_v2.py 111-117: RE_TP.finditer over the text.
CollectTps(text, i, tps) ==
    IF i > Len(text) THEN tps
    ELSE IF text[i].k = "tp"
         THEN CollectTps(text, i + 1, SetTp(tps, text[i].idx, FloatOfNum(text[i].n)))
         ELSE CollectTps(text, i + 1, tps)

RECURSIVE Positive(_)
\* signal_parser_v2.py 118: [p for p in tps if p > 0]
Positive(q) ==
    IF q = <<>> THEN <<>>
    ELSE (IF Head(q) > 0 THEN <<Head(q)>> ELSE <<>>) \o Positive(Tail(q))

NoSignal == [ok |-> FALSE]

\* signal_parser_v2.py 77-155; sl_price 0 stands for None.
parse_signal_v2(text) ==
    IF ~\E i \in DOMAIN text : Upper(text[i].w) = "NEW SIGNAL" THEN NoSignal
    ELSE IF MatchesClosed(text) THEN NoSignal
    ELSE IF SideMatches(text) = {} THEN NoSignal
    ELSE LET ms == text[CHOOSE i \in SideMatches(text) : \A j \in SideMatches(text) : i <= j]
             sls == {i \in DOMAIN text : text[i].k = "sl"}
         IN  [ok |-> TRUE,
              base |-> Upper(ms.base),
              symbol |-> Upper(ms.base) \o Upper(ms.quote),
              side |-> IF Upper(ms.w) = "SELL" THEN "sell" ELSE "buy",
              trigger |-> FloatOfNum(ms.n),
              tp_prices |-> Positive(CollectTps(text, 1, <<>>)),
              sl_price |-> IF sls = {} THEN 0
                           ELSE FloatOfNum(text[CHOOSE i \in sls : \A j \in sls : i <= j].n)]

\* A price in hundredths as the feed writes it.
NumOf(x) == <<x \div 100, x % 100>>

\* The signals an author announces: prices in hundredths, sl 0 for none.
V2Signals ==
    [ side : {"buy", "sell"}, base : {"SAPIEN", "ETH"}, trigger : {13236, 345025},
      sl : {0, 12500}, tps : {<<>>, <<13501>>, <<13501, 13765>>, <<13501, 13765, 14295>>} ]

\* Status lines of the feed: none, the four that close a trade, and two that
\* do not.
V2Status ==
    {"", "TRADE CLOSED", "CLOSED AT BREAKEVEN", "TRADE CANCELLED",
     "Trade closed without entry", "TP1 HIT", "Active"}

V2Messages ==
    [ sig : V2Signals, header : {"NEW SIGNAL", "SIGNAL UPDATE"}, status : V2Status,
      side_line : BOOLEAN, tps_reversed : BOOLEAN ]

\* The text of a message in the layout of signal_parser_v2.py 10-22.
RenderV2(msg) ==
    LET sig == msg.sig
        tp_line(j) == TextLine("tp", "TP", "", "", NumOf(sig.tps[j]), j)
    IN  <<TextLine("header", msg.header, sig.base, "", NumOf(sig.trigger), 0)>>
        \o (IF msg.side_line
            THEN <<TextLine("side", IF sig.side = "sell" THEN "SELL" ELSE "BUY", sig.base,
                            "USDT", NumOf(sig.trigger), 0)>>
            ELSE <<>>)
        \o (IF msg.status = "" THEN <<>>
            ELSE <<TextLine("status", msg.status, "", "", <<0, 0>>, 0)>>)
        \o (IF sig.sl = 0 THEN <<>> ELSE <<TextLine("sl", "SL", "", "", NumOf(sig.sl), 0)>>)
        \o [j \in DOMAIN sig.tps |->
               IF msg.tps_reversed THEN tp_line(Len(sig.tps) + 1 - j) ELSE tp_line(j)]

InitParse ==
    /\ p_msg \in V2Messages
    /\ p_text = RenderV2(p_msg)
    /\ p_out = NoSignal
    /\ p_pc = "text"

OtherThanParse ==
    <<life_vars, hash_vars, save_vars, entry_vars, update_vars, score_vars, stale_vars,
      store_vars, split_vars, ws_vars, late_vars>>

\* parse_signal(text) is called.
ParseMessage ==
    /\ p_pc = "text"
    /\ p_out' = parse_signal_v2(p_text)
    /\ p_pc' = "parsed"
    /\ UNCHANGED <<p_msg, p_text, OtherThanParse>>

NextParse == ParseMessage

InitSpecParse ==
    InitLifeIdle /\ InitHashIdle /\ InitSaveIdle /\ InitIntake /\ InitDcaIdle
    /\ InitScoreIdle /\ InitStaleIdle /\ InitStoreIdle /\ InitSplitsIdle /\ InitWsIdle
    /\ InitParse /\ InitLateIdle

SpecParse == InitSpecParse /\ [][NextParse]_vars

IsClosedStatus(w) ==
    w \in {"TRADE CLOSED", "CLOSED AT BREAKEVEN", "TRADE CANCELLED",
           "Trade closed without entry"}

\* C28: the v2 parser returns no signal for a message with a closed or
\* cancelled marker, and for a fresh NEW SIGNAL message it returns the side,
\* the symbol, the entry, the stop and all take-profits of the message.
C28_V2RejectsClosedParsesFresh ==
    p_pc = "parsed" =>
        /\ IsClosedStatus(p_msg.status) => p_out = NoSignal
        /\ (p_msg.header = "NEW SIGNAL" /\ p_msg.side_line /\ ~IsClosedStatus(p_msg.status)) =>
              /\ p_out.ok
              /\ p_out.side = p_msg.sig.side
              /\ p_out.symbol = p_msg.sig.base \o "USDT"
              /\ p_out.trigger = p_msg.sig.trigger
              /\ p_out.sl_price = p_msg.sig.sl
              /\ p_out.tp_prices = p_msg.sig.tps

\* C28 witness: a well-formed NEW SIGNAL message for a sell with three
\* take-profits and the marker TRADE CANCELLED was rejected.
C28_Witness ==
    /\ p_pc = "parsed"
    /\ p_msg.header = "NEW SIGNAL" /\ p_msg.side_line
    /\ p_msg.sig.side = "sell" /\ Len(p_msg.sig.tps) = 3
    /\ p_msg.status = "TRADE CANCELLED"
    /\ p_out = NoSignal

\* ==================================================== score and policy
\* score_signal and analyze_trend on single signals: every kind of signal
\* against every outcome of the swing analysis.

\* Signals with and without stop and take-profit, with the stop on the
\* wrong side of the entry, and with the first take-profit on the wrong side.
FormulaSignals ==
    { [symbol |-> 1, side |-> "buy", trigger |-> 100, sl_price |-> 98, tp_prices |-> <<104>>],
      [symbol |-> 1, side |-> "buy", trigger |-> 100, sl_price |-> 98, tp_prices |-> <<107, 110>>],
      [symbol |-> 1, side |-> "sell", trigger |-> 100, sl_price |-> 102, tp_prices |-> <<96>>],
      [symbol |-> 1, side |-> "sell", trigger |-> 100, sl_price |-> 98, tp_prices |-> <<96>>],
      [symbol |-> 1, side |-> "buy", trigger |-> 100, sl_price |-> 0, tp_prices |-> <<104>>],
      [symbol |-> 1, side |-> "buy", trigger |-> 100, sl_price |-> 98, tp_prices |-> <<>>],
      [symbol |-> 1, side |-> "buy", trigger |-> 100, sl_price |-> 101, tp_prices |-> <<104>>],
      [symbol |-> 1, side |-> "buy", trigger |-> 100, sl_price |-> 98, tp_prices |-> <<99>>] }

\* Fewer than four swings, or a trend with its direction, its leg (at least
\* 1, trend_analysis.py 539-541) and its pullback state.
FormulaMarkets ==
    { [kind |-> "few", direction |-> "NEUTRAL", leg |-> 0, pullback |-> FALSE],
      [kind |-> "trend", direction |-> "NEUTRAL", leg |-> 0, pullback |-> FALSE] }
    \cup [kind : {"trend"}, direction : {"UP", "DOWN"}, leg : 1..(MAX_ALLOWED_LEG + 1),
          pullback : BOOLEAN]

InitFormula ==
    /\ sc_batch \in [1..1 -> [signal : FormulaSignals, market : FormulaMarkets]]
    /\ sc_scored = <<>>
    /\ sc_best = <<>>
    /\ sc_exec = <<>>
    /\ sc_pc = "loop"

InitSpecFormula ==
    InitLifeIdle /\ InitHashIdle /\ InitSaveIdle /\ InitIntake /\ InitDcaIdle /\ InitFormula
    /\ InitAuxIdle

SpecFormula == InitSpecFormula /\ [][NextLoop]_vars

\* The risk/reward of the design, times ten: the favourable distance from
\* the entry to the first take-profit over the distance from the entry to
\* the stop; zero without stop or take-profit or with a risk of zero or less.
ClaimedRiskReward10(sig) ==
    IF sig.sl_price = 0 \/ sig.tp_prices = <<>> THEN 0
    ELSE LET favourable == IF sig.side = "buy" THEN sig.tp_prices[1] - sig.trigger
                                               ELSE sig.trigger - sig.tp_prices[1]
             risk == IF sig.side = "buy" THEN sig.trigger - sig.sl_price
                                         ELSE sig.sl_price - sig.trigger
         IN  IF risk <= 0 THEN 0 ELSE (favourable * 10) \div risk

ClaimedScore(e) ==
    100
    + (IF e.analysis.current_leg <= MAX_ALLOWED_LEG
       THEN (MAX_ALLOWED_LEG - e.analysis.current_leg + 1) * 20 ELSE 0)
    + (IF e.analysis.is_pullback THEN 15 ELSE 0)
    + (IF ClaimedRiskReward10(e.signal) < 30 THEN ClaimedRiskReward10(e.signal) ELSE 30)
    - (IF e.analysis.recommendation = "LATE" THEN 20 ELSE 0)

\* C29: a signal whose recommendation is not skip is scored 100, plus
\* (max leg - leg + 1) * 20 for a leg within the bound, plus 15 in a
\* pullback, plus the risk/reward times ten up to 30, minus 20 when late.
C29_ScoreFormula ==
    \A k \in DOMAIN sc_scored :
        sc_scored[k].analysis.recommendation \in {"VALID", "LATE"} =>
            sc_scored[k].score = ClaimedScore(sc_scored[k])

\* C29 witness: a late entry on leg 3 with a risk/reward of 3.5 has the
\* score 100 + 20 + 30 - 20.
C29_Witness ==
    /\ sc_pc = "returned"
    /\ sc_scored[1].analysis.recommendation = "LATE"
    /\ sc_scored[1].analysis.current_leg = 3
    /\ sc_scored[1].signal.tp_prices = <<107, 110>>
    /\ sc_scored[1].score = 130

\* The policy of the design, in its order.
ClaimedRecommendation(market, side) ==
    IF market.kind = "few" THEN "SKIP"
    ELSE IF (side = "buy" /\ market.direction # "UP") \/ (side = "sell" /\ market.direction # "DOWN")
         THEN "SKIP"
    ELSE IF market.leg > MAX_ALLOWED_LEG THEN "SKIP"
    ELSE IF market.pullback THEN "VALID"
    ELSE IF market.leg <= 2 THEN "VALID"
    ELSE "LATE"

\* C30: analyze_trend recommends by these tests in this order: fewer than 4
\* swings skip, side against the direction skip, leg above the bound skip,
\* pullback valid, leg at most 2 valid, else late; and every analysis has
\* one of the three recommendations and a reason.
C30_RecommendationPolicy ==
    \A k \in DOMAIN sc_scored :
        LET a == sc_scored[k].analysis
            b == sc_batch[sc_scored[k].signal.symbol]
        IN  /\ a.recommendation = ClaimedRecommendation(b.market, b.signal.side)
            /\ a.recommendation \in {"VALID", "LATE", "SKIP"}
            /\ a.reason \notin {None, ""}

\* C30 witness: a buy in an uptrend on leg 4, in a pullback, is skipped for
\* its leg.
C30_Witness ==
    /\ sc_scored # <<>>
    /\ sc_batch[1].signal.side = "buy"
    /\ sc_batch[1].market.direction = "UP"
    /\ sc_batch[1].market.leg = 4 /\ sc_batch[1].market.pullback
    /\ sc_scored[1].analysis.recommendation = "SKIP"
    /\ sc_scored[1].analysis.reason = "leg > max allowed"


\* ------------------------------------------------------ tracked peak price

\* C40: while a trade is pending its tracked peak moves only the favorable
\* way: no step lowers peak_price_seen of a Buy trade or raises that of a
\* Sell trade, so a peak that reached the first take-profit stays there.
C40_PeakOnlyFavorable ==
    [][\A t \in Trades :
          open_trades[t].status = "pending" =>
              IF open_trades[t].order_side = "Buy"
              THEN open_trades'[t].peak_price_seen >= open_trades[t].peak_price_seen
              ELSE open_trades'[t].peak_price_seen <= open_trades[t].peak_price_seen]_vars

\* C40 witness: the monitor has tracked a peak for a pending trade and has
\* finished a pass, and the price now stands on the unfavorable side of it.
C40_Witness ==
    \E t \in Trades :
        /\ open_trades[t].status = "pending"
        /\ open_trades[t].peak_price_seen # NoPeak(open_trades[t].order_side)
        /\ mon_pc = "price" /\ mon_pending = {}
        /\ IF open_trades[t].order_side = "Buy"
           THEN last_price[t] < open_trades[t].peak_price_seen
           ELSE last_price[t] > open_trades[t].peak_price_seen


\* ------------------------------------------------------- filled entries

\* C34: an entry that has filled is never abandoned: no trade is in
\* cancelled_past_tp while the exchange holds the position its entry order
\* opened and no post-entry orders have been placed for it.
C34_FilledEntryNotAbandoned ==
    \A t \in Trades :
        open_trades[t].status = "cancelled_past_tp" =>
            ~(position[t] /\ ~open_trades[t].post_orders_placed)


\* ------------------------------------------------------------- trade ids

\* C35: every stored trade has its own record: the step that stores a trade
\* after a successful placement (main.py 551, the only step that raises the
\* day's count) writes under an id that is not yet in open_trades.
C35_StoreNeverOverwrites ==
    [][daily_counts' # daily_counts => exec_id \notin DOMAIN st_open_trades]_vars


\* ------------------------------------------------ poll-based fill detection

\* C36: the fill check of the control loop (main.py 420-428, 587-593) writes
\* a pending trade open only when the entry order of that trade has filled.
C36_PollOpensOwnFillOnly ==
    [][\A id \in DOMAIN st_open_trades :
          ( /\ fill_cur = id /\ fill_cur' = <<>>
            /\ id \in DOMAIN st_open_trades'
            /\ st_open_trades[id].status = "pending"
            /\ st_open_trades'[id].status = "open" ) => id \in entry_filled]_vars


\* ---------------------------------------------------------------------
\* Trend structure: significant swings, major reversal and leg count
\* (trend_analysis.py).  Prices and the volatility unit are whole numbers;
\* the threshold of one and a half units is compared doubled.
\* ---------------------------------------------------------------------

MaxSwings == 5            \* swing points detected in the candles
MaxAtr == 2               \* largest volatility unit

min_swing_atr_doubled == 3    \* min_swing_atr = 1.5, doubled
min_reversal_atr == 3

SwingPrices == {10, 14, 18, 22}

SwingPoints == [is_high : BOOLEAN, price : SwingPrices]

Highest(S) == CHOOSE x \in S : \A y \in S : x >= y

\* The elements of seq at the positions in K, in their order.
Picked(seq, K) ==
    [n \in 1..Cardinality(K) |->
        seq[CHOOSE i \in K : Cardinality({j \in K : j <= i}) = n]]

filter_significant_swings(swings, atr) ==
    IF swings = <<>> \/ atr <= 0 THEN swings
    ELSE LET Opposite(i) == {j \in 1..(i - 1) : swings[j].is_high # swings[i].is_high}
             Keep(i) ==
                 \/ i = 1
                 \/ Opposite(i) = {}
                 \/ 2 * Abs(swings[i].price - swings[Highest(Opposite(i))].price)
                        >= min_swing_atr_doubled * atr
         IN  Picked(swings, {i \in 1..Len(swings) : Keep(i)})

\* The labelling loop shared by classify_swing_sequence and
\* count_significant_legs: each swing against the last one of its own type.
SwingLabels(swings) ==
    [i \in 1..Len(swings) |->
        LET Same == {j \in 1..(i - 1) : swings[j].is_high = swings[i].is_high}
        IN  IF Same = {} THEN (IF swings[i].is_high THEN "H" ELSE "L")
            ELSE IF swings[i].price > swings[Highest(Same)].price
                 THEN (IF swings[i].is_high THEN "HH" ELSE "HL")
                 ELSE (IF swings[i].is_high THEN "LH" ELSE "LL")]

classify_swing_sequence(swings) ==
    IF Len(swings) < 4 THEN [direction |-> "NEUTRAL", labels |-> <<>>]
    ELSE LET labels == SwingLabels(swings)
             recent == IF Len(labels) >= 8
                       THEN SubSeq(labels, Len(labels) - 7, Len(labels))
                       ELSE labels
             Count(l) == Cardinality({i \in 1..Len(recent) : recent[i] = l})
         IN  IF /\ Count("HH") + Count("HL") > Count("LH") + Count("LL")
                /\ Count("HH") >= 1 /\ Count("HL") >= 1
             THEN [direction |-> "UP", labels |-> labels]
             ELSE IF /\ Count("LH") + Count("LL") > Count("HH") + Count("HL")
                     /\ Count("LH") >= 1 /\ Count("LL") >= 1
                  THEN [direction |-> "DOWN", labels |-> labels]
                  ELSE [direction |-> "NEUTRAL", labels |-> labels]

\* Indices are those of the source: the first swing has index 0.
find_major_trend_reversal(swings, labels, direction, atr) ==
    IF labels = <<>> \/ swings = <<>> \/ direction = "NEUTRAL" THEN 0
    ELSE LET up == direction = "UP"
             n == IF Len(swings) < Len(labels) THEN Len(swings) ELSE Len(labels)
             \* the lows of an uptrend, the highs of a downtrend
             Own == {i \in 1..n : swings[i].is_high = ~up}
             Before(i) == {j \in Own : j < i}
             Hit(i) ==
                 /\ Before(i) # {}
                 /\ IF up
                    THEN swings[i].price
                            > swings[Highest(Before(i))].price + min_reversal_atr * atr
                    ELSE swings[i].price
                            < swings[Highest(Before(i))].price - min_reversal_atr * atr
             Hits == {i \in Own : Hit(i)}
             found == IF Hits = {} THEN 0 ELSE Highest(Before(Min(Hits))) - 1
             Against == {i \in 1..Len(labels) : labels[i] = (IF up THEN "LL" ELSE "HH")}
             best_reversal_idx ==
                 IF found # 0 THEN found
                 ELSE IF Against = {} THEN 0 ELSE (Highest(Against) - 1) + 1
         IN  IF best_reversal_idx < Len(labels) - 1 THEN best_reversal_idx
             ELSE Len(labels) - 1

count_significant_legs_NoFloor(swings, labels, direction, atr) ==
    IF labels = <<>> \/ direction = "NEUTRAL"
    THEN [leg_count |-> 0, is_pullback |-> FALSE, trend_start_idx |-> 0,
          relevant_labels |-> <<>>]
    ELSE LET significant_swings == filter_significant_swings(swings, atr)
             sig_labels == SwingLabels(significant_swings)
             trend_start_idx ==
                 find_major_trend_reversal(significant_swings, sig_labels, direction, atr)
             relevant_labels ==
                 IF trend_start_idx < Len(sig_labels)
                 THEN SubSeq(sig_labels, trend_start_idx + 1, Len(sig_labels))
                 ELSE <<>>
             impulse == IF direction = "UP" THEN "HH" ELSE "LL"
             Impulses == {i \in 1..Len(relevant_labels) : relevant_labels[i] = impulse}
         IN  [leg_count |-> Cardinality(Impulses), is_pullback |-> FALSE,
              trend_start_idx |-> trend_start_idx, relevant_labels |-> relevant_labels]

count_significant_legs(swings, labels, direction, atr) ==
    IF labels = <<>> \/ direction = "NEUTRAL"
    THEN [leg_count |-> 0, is_pullback |-> FALSE, trend_start_idx |-> 0,
          relevant_labels |-> <<>>]
    ELSE LET significant_swings == filter_significant_swings(swings, atr)
             sig_labels == SwingLabels(significant_swings)
             trend_start_idx ==
                 find_major_trend_reversal(significant_swings, sig_labels, direction, atr)
             relevant_labels ==
                 IF trend_start_idx < Len(sig_labels)
                 THEN SubSeq(sig_labels, trend_start_idx + 1, Len(sig_labels))
                 ELSE <<>>
             impulse == IF direction = "UP" THEN "HH" ELSE "LL"
             retrace == IF direction = "UP" THEN "HL" ELSE "LH"
             Impulses == {i \in 1..Len(relevant_labels) : relevant_labels[i] = impulse}
             Retraces == {i \in 1..Len(relevant_labels) : relevant_labels[i] = retrace}
             counted == Cardinality(Impulses)
             \* the flag is what the last impulse or retrace label left behind
             in_pullback ==
                 /\ Retraces # {}
                 /\ (Impulses = {} \/ Highest(Retraces) > Highest(Impulses))
             leg_count == IF counted = 0 /\ Len(relevant_labels) > 0 THEN 1 ELSE counted
         IN  [leg_count |-> leg_count, is_pullback |-> in_pullback,
              trend_start_idx |-> trend_start_idx, relevant_labels |-> relevant_labels]

\* analyze_trend up to the leg count: what it reports of the structure.
TrendStructure(swings, atr) ==
    IF Len(swings) < 4
    THEN [direction |-> "NEUTRAL", current_leg |-> 0, is_pullback |-> FALSE,
          trend_start_idx |-> 0, relevant_labels |-> <<>>]
    ELSE LET filtered == filter_significant_swings(swings, atr)
             significant_swings == IF Len(filtered) < 4 THEN swings ELSE filtered
             c == classify_swing_sequence(significant_swings)
             l == count_significant_legs(swings, c.labels, c.direction, atr)
         IN  [direction |-> c.direction, current_leg |-> l.leg_count,
              is_pullback |-> l.is_pullback, trend_start_idx |-> l.trend_start_idx,
              relevant_labels |-> l.relevant_labels]

InitLegs ==
    /\ ta_swings \in UNION {[1..n -> SwingPoints] : n \in (MaxSwings - 2)..MaxSwings}
    /\ ta_atr \in 1..MaxAtr
    /\ ta_out = <<>>
    /\ ta_pc = "swings"

OtherThanLegs ==
    <<life_vars, hash_vars, save_vars, entry_vars, update_vars, score_vars, stale_vars,
      store_vars, split_vars, ws_vars, parse_vars, slu_vars, feed_vars>>

\* analyze_trend is called on the candles the swings were detected in.
AnalyzeTrend ==
    /\ ta_pc = "swings"
    /\ ta_out' = TrendStructure(ta_swings, ta_atr)
    /\ ta_pc' = "analyzed"
    /\ UNCHANGED <<ta_swings, ta_atr, OtherThanLegs>>

NextLegs == AnalyzeTrend

InitSpecLegs ==
    /\ InitLifeIdle /\ InitHashIdle /\ InitSaveIdle /\ InitIntake /\ InitDcaIdle
    /\ InitScoreIdle /\ InitStaleIdle /\ InitStoreIdle /\ InitSplitsIdle /\ InitWsIdle
    /\ InitParseIdle /\ InitSluIdle /\ InitFeedIdle
    /\ InitLegs

SpecLegs == InitSpecLegs /\ [][NextLegs]_vars

\* The reversal points the trend's structure offers: in an uptrend the lows
\* that the following low exceeds by at least three volatility units, in a
\* downtrend the highs that the following high undercuts by as much
\* (indices of the source, from 0).
ReversalPoints(swings, direction, atr) ==
    LET up == direction = "UP"
        Own == {i \in 1..Len(swings) : swings[i].is_high = ~up}
        After(i) == {j \in Own : j > i}
    IN  {i - 1 : i \in {k \in Own :
            /\ After(k) # {}
            /\ IF up
               THEN swings[Min(After(k))].price >= swings[k].price + min_reversal_atr * atr
               ELSE swings[Min(After(k))].price <= swings[k].price - min_reversal_atr * atr}}

\* C32: when the significant swings of a trend hold a reversal point, the
\* legs are counted from the last of them.
C32_LastMajorReversal ==
    (ta_pc = "analyzed" /\ ta_out.direction \in {"UP", "DOWN"}) =>
        LET significant == filter_significant_swings(ta_swings, ta_atr)
            points == ReversalPoints(significant, ta_out.direction, ta_atr)
        IN  points # {} =>
                /\ ta_out.trend_start_idx = Highest(points)
                /\ ta_out.relevant_labels
                      = SubSeq(SwingLabels(significant), Highest(points) + 1,
                               Len(significant))

\* C33: a detected uptrend or downtrend is reported with leg 1 or more; leg 0
\* comes only with a neutral direction or with fewer than four swings.
C33_LegFloor ==
    ta_pc = "analyzed" =>
        /\ ta_out.direction \in {"UP", "DOWN"} => ta_out.current_leg >= 1
        /\ ta_out.current_leg = 0 =>
               (ta_out.direction = "NEUTRAL" \/ Len(ta_swings) < 4)

\* A trend whose labels past the reversal point hold no impulse: the floor acts.
C33_Witness ==
    /\ ta_pc = "analyzed"
    /\ ta_out.direction \in {"UP", "DOWN"}
    /\ ta_out.current_leg = 1
    /\ \A i \in 1..Len(ta_out.relevant_labels) :
           ta_out.relevant_labels[i] \notin {"HH", "LL"}


\* ---------------------------------------------------------------------
\* The stop-loss block of check_signal_updates (main.py 198-242) on a stored
\* trade, for every setting of the soft cap.
\* ---------------------------------------------------------------------

MaxCapPct == 3            \* largest CAP_SL_DISTANCE_PCT setting that is modelled

\* Distances from entry, in percent of it, of the stops the feed announces.
StopDistances == {1, 3, 4, 10}

\* sig.get("sl_price") of a parsed update: nothing (0) or a stop on the
\* protective side of the entry.
ParsedStops(side) ==
    {0} \cup {IF side = "Buy" THEN Trigger - d ELSE Trigger + d : d \in StopDistances}

\* Mutant: the block runs whether or not the stop was moved to break-even.
UpdateStopLoss_NoBeGuard(tr, exch, new_sl, cap, cancel_ok) ==
    LET is_open == tr.status = "open"
    IN  IF new_sl # 0 /\ new_sl # tr.sl_price
        THEN IF MAX_SL_DISTANCE_PCT > 0
                /\ SlDistanceOver(new_sl, tr.trigger, MAX_SL_DISTANCE_PCT)
             THEN IF ~is_open
                  THEN [trade |-> SlTooFarPending(tr),
                        exch |-> [exch EXCEPT !.entry_live = IF cancel_ok THEN FALSE ELSE @]]
                  ELSE [trade |-> SlTooFarOpen(tr, new_sl), exch |-> exch]
             ELSE [trade |-> [tr EXCEPT !.sl_price = SoftCap(tr, new_sl, cap)],
                   exch |-> [exch EXCEPT !.live_stop =
                                IF is_open THEN SoftCap(tr, new_sl, cap) ELSE @]]
        ELSE [trade |-> tr, exch |-> exch]

\* main.py 198-242: the trade and the exchange after the block. new_sl = 0
\* stands for an update without a stop; cancel_ok tells whether the
\* best-effort cancel of the entry order worked.
UpdateStopLoss(tr, exch, new_sl, cap, cancel_ok) ==
    LET is_open == tr.status = "open"
    IN  IF new_sl # 0 /\ new_sl # tr.sl_price /\ ~tr.sl_moved_to_be
        THEN IF MAX_SL_DISTANCE_PCT > 0
                /\ SlDistanceOver(new_sl, tr.trigger, MAX_SL_DISTANCE_PCT)
             THEN IF ~is_open
                  THEN [trade |-> SlTooFarPending(tr),
                        exch |-> [exch EXCEPT !.entry_live = IF cancel_ok THEN FALSE ELSE @]]
                  ELSE [trade |-> SlTooFarOpen(tr, new_sl), exch |-> exch]
             ELSE [trade |-> [tr EXCEPT !.sl_price = SoftCap(tr, new_sl, cap)],
                   exch |-> [exch EXCEPT !.live_stop =
                                IF is_open THEN SoftCap(tr, new_sl, cap) ELSE @]]
        ELSE [trade |-> tr, exch |-> exch]

\* A pending trade as main.py 551-572 stores it, and an update parsed for it.
InitSlu ==
    \E side \in Sides :
        /\ slu_trade = NewTrade(1, side)
        /\ slu_before = NewTrade(1, side)
        /\ slu_new_sl \in ParsedStops(side)
        /\ slu_cap \in 0..MaxCapPct
        /\ slu_exch = [live_stop |-> 0, entry_live |-> TRUE]
        /\ slu_pc = "parsed"

OtherThanSlu ==
    <<life_vars, hash_vars, save_vars, entry_vars, update_vars, score_vars, stale_vars,
      store_vars, split_vars, ws_vars, parse_vars, legs_vars, feed_vars>>

\* The entry order fills: the trade is open and its stop order is placed.
SluEntryFill ==
    /\ slu_pc = "parsed"
    /\ slu_trade.status = "pending"
    /\ slu_trade' = [slu_trade EXCEPT !.status = "open", !.post_orders_placed = TRUE]
    /\ slu_before' = slu_trade'
    /\ slu_exch' = [live_stop |-> slu_trade.sl_price, entry_live |-> FALSE]
    /\ UNCHANGED <<slu_new_sl, slu_cap, slu_pc, OtherThanSlu>>

\* The first take-profit fills: the stop moves to break-even, once.
SluTpFill ==
    /\ slu_pc = "parsed"
    /\ slu_trade.status = "open"
    /\ ~slu_trade.sl_moved_to_be
    /\ slu_trade' = [slu_trade EXCEPT !.sl_price = slu_trade.trigger,
                                     !.sl_moved_to_be = TRUE]
    /\ slu_before' = slu_trade'
    /\ slu_exch' = [slu_exch EXCEPT !.live_stop = slu_trade.trigger]
    /\ UNCHANGED <<slu_new_sl, slu_cap, slu_pc, OtherThanSlu>>

\* check_signal_updates reaches the stop-loss block for the trade.
SluApply ==
    /\ slu_pc = "parsed"
    /\ \E cancel_ok \in BOOLEAN :
          LET after == UpdateStopLoss(slu_trade, slu_exch, slu_new_sl, slu_cap, cancel_ok)
          IN  /\ slu_trade' = after.trade
              /\ slu_exch' = after.exch
    /\ slu_pc' = "done"
    /\ UNCHANGED <<slu_before, slu_new_sl, slu_cap, OtherThanSlu>>

NextSlu == SluEntryFill \/ SluTpFill \/ SluApply

InitSpecSlu ==
    /\ InitLifeIdle /\ InitHashIdle /\ InitSaveIdle /\ InitIntake /\ InitDcaIdle
    /\ InitScoreIdle /\ InitStaleIdle /\ InitStoreIdle /\ InitSplitsIdle /\ InitWsIdle
    /\ InitParseIdle /\ InitLegsIdle /\ InitFeedIdle
    /\ InitSlu

SpecSlu == InitSpecSlu /\ [][NextSlu]_vars

\* The update asks for a stop beyond the soft cap and within the hard cap, and
\* the block acts on it.
SoftCapCase ==
    /\ slu_pc = "done"
    /\ slu_cap > 0
    /\ slu_new_sl # 0 /\ slu_new_sl # slu_before.sl_price
    /\ ~slu_before.sl_moved_to_be
    /\ SlDistanceOver(slu_new_sl, slu_before.trigger, slu_cap)
    /\ ~SlDistanceOver(slu_new_sl, slu_before.trigger, MAX_SL_DISTANCE_PCT)

\* C31: a stop beyond the soft cap and within the hard cap is stored at the
\* cap distance from entry, above it for a Sell trade and below it for a Buy
\* trade.
C31_SoftCapProtectiveSide ==
    SoftCapCase =>
        slu_trade.sl_price
            = IF slu_trade.order_side = "Sell"
              THEN (slu_trade.trigger * (100 + slu_cap)) \div 100
              ELSE (slu_trade.trigger * (100 - slu_cap)) \div 100

\* C39: with sl_moved_to_be set, the block leaves the trade, the live stop
\* and the entry order as they were.
C39_BreakEvenStopUntouched ==
    (slu_pc = "done" /\ slu_before.sl_moved_to_be) =>
        /\ slu_trade = slu_before
        /\ slu_exch.live_stop = slu_before.trigger
        /\ slu_trade.status = "open" /\ slu_trade.exit_reason # "sl_too_far"

\* The block ran for a break-even trade whose feed announces another stop.
C39_Witness ==
    /\ slu_pc = "done"
    /\ slu_before.sl_moved_to_be
    /\ slu_new_sl # 0 /\ slu_new_sl # slu_before.sl_price


\* ---------------------------------------------------------------------
\* One cycle of the feed: ingestion, batch selection, the execute loop and
\* the cursor (main.py 440-581), with the message each signal came from.
\* ---------------------------------------------------------------------

MaxFeedMsgs == 3          \* messages of one fetch

\* The fetches: messages with ids 1, 2, ... after the cursor, each carrying
\* one signal.
FeedFetches ==
    { [i \in DOMAIN f |-> [id |-> i, sig |-> f[i]]] :
        f \in UNION { [1..n -> IntakeSignals] : n \in 1..MaxFeedMsgs } }

RECURSIVE IngestFeed(_, _, _, _)
\* main.py 459-502: the signal of each message, unless its hash is in seen,
\* is marked seen and appended with the message id.
IngestFeed(msgs, i, seen0, batch0) ==
    IF i > Len(msgs) THEN [seen |-> seen0, batch |-> batch0]
    ELSE LET sh == signal_hash(parser_version, msgs[i].sig)
         IN  IF sh \in seen0
             THEN IngestFeed(msgs, i + 1, seen0, batch0)
             ELSE IngestFeed(msgs, i + 1, seen0 \cup {sh},
                             Append(batch0, [sig |-> msgs[i].sig, mid |-> msgs[i].id]))

\* main.py 461: max_seen after the loop.
MaxSeen(after, msgs) == Highest({after} \cup {msgs[i].id : i \in DOMAIN msgs})

\* main.py 515: {s.get("symbol"): mid for s, mid in batch_signals}; a later
\* tuple with the same symbol replaces the earlier one.
MsgIds(batch) ==
    [sym \in {batch[i].sig.symbol : i \in DOMAIN batch} |->
        batch[Highest({i \in DOMAIN batch : batch[i].sig.symbol = sym})].mid]

\* main.py 534: [(s, msg_ids.get(s.get("symbol"), 0)) for s in best_signals]
Reattach(best, batch) ==
    [i \in DOMAIN best |->
        [sig |-> best[i],
         mid |-> IF best[i].symbol \in DOMAIN MsgIds(batch)
                 THEN MsgIds(batch)[best[i].symbol] ELSE 0]]

\* main.py 551-572: the stored trade with its linked message id.
LinkedTrade(sig, mid) == StoredTrade(sig) @@ ("discord_msg_id" :> mid)

\* The state after an earlier cycle or none: no trade under management, some
\* entries already placed today, the cursor before the fetched messages.
InitFeed ==
    /\ fd_msgs \in FeedFetches
    /\ \E n \in 0..(MAX_TRADES_PER_DAY - 1) :
          fd_st = [last_discord_id |-> 0, seen_signal_hashes |-> {},
                   open_trades |-> EmptyDict,
                   daily_counts |-> DictSet(EmptyDict, utc_day_key(0), n)]
    /\ fd_batch = <<>>
    /\ fd_max_seen = 0
    /\ fd_origin = <<>>
    /\ fd_chosen = <<>>
    /\ fd_attempted = {}
    /\ fd_now = 0
    /\ fd_pc = "fetched"

OtherThanFeed ==
    <<life_vars, hash_vars, save_vars, entry_vars, update_vars, score_vars, stale_vars,
      store_vars, split_vars, ws_vars, parse_vars, legs_vars, slu_vars>>

\* A second passes.
FeedTick ==
    /\ fd_pc \in {"fetched", "ingested", "exec"}
    /\ fd_now < MaxTicks
    /\ fd_now' = fd_now + 1
    /\ UNCHANGED <<fd_msgs, fd_st, fd_batch, fd_max_seen, fd_origin, fd_chosen,
                   fd_attempted, fd_pc, OtherThanFeed>>

\* main.py 450-505: the ingestion loop and the update of the dedupe list.
FeedIngest ==
    /\ fd_pc = "fetched"
    /\ LET r == IngestFeed(fd_msgs, 1, fd_st.seen_signal_hashes, <<>>)
       IN  /\ fd_batch' = r.batch
           /\ fd_origin' = r.batch
           /\ fd_st' = [fd_st EXCEPT !.seen_signal_hashes = r.seen]
    /\ fd_max_seen' = MaxSeen(fd_st.last_discord_id, fd_msgs)
    /\ fd_pc' = "ingested"
    /\ UNCHANGED <<fd_msgs, fd_chosen, fd_attempted, fd_now, OtherThanFeed>>

\* main.py 508-534: a batch of more than one signal is scored and the best
\* are selected; the message ids are attached again by symbol.
FeedSelect ==
    /\ fd_pc = "ingested"
    /\ IF SIGNAL_BATCH_ENABLED /\ Len(fd_batch) > 1
       THEN \E best \in SelectBest([i \in DOMAIN fd_batch |-> fd_batch[i].sig]) :
               /\ fd_batch' = Reattach(best, fd_batch)
               /\ fd_chosen' = best
       ELSE /\ fd_chosen' = [i \in DOMAIN fd_batch |-> fd_batch[i].sig]
            /\ UNCHANGED fd_batch
    /\ fd_pc' = IF fd_batch' = <<>> THEN "cursor" ELSE "exec"
    /\ UNCHANGED <<fd_msgs, fd_st, fd_max_seen, fd_origin, fd_attempted, fd_now,
                   OtherThanFeed>>

\* main.py 537-579: one pass of the execute loop. The engine returns an
\* order id or none; after a stored trade the caps may end the loop.
FeedPlace ==
    /\ fd_pc = "exec"
    /\ LET e == Head(fd_batch)
           trade_id == TradeId(e.sig, fd_now)
           stored == [fd_st EXCEPT
                         !.open_trades = DictSet(@, trade_id, LinkedTrade(e.sig, e.mid)),
                         !.daily_counts = inc_trades_today(@, fd_now)]
       IN  /\ fd_attempted' = fd_attempted \cup {e.sig}
           /\ fd_batch' = Tail(fd_batch)
           /\ \E oid \in BOOLEAN :
                 IF ~oid
                 THEN /\ UNCHANGED fd_st
                      /\ fd_pc' = IF Tail(fd_batch) = <<>> THEN "cursor" ELSE "exec"
                 ELSE /\ fd_st' = stored
                      /\ fd_pc' = IF \/ Tail(fd_batch) = <<>>
                                     \/ HitLimits(stored.open_trades, stored.daily_counts,
                                                  fd_now)
                                  THEN "cursor" ELSE "exec"
    /\ UNCHANGED <<fd_msgs, fd_max_seen, fd_origin, fd_chosen, fd_now, OtherThanFeed>>

\* main.py 581: st["last_discord_id"] = str(max_seen) if max_seen else after
FeedCursor ==
    /\ fd_pc = "cursor"
    /\ fd_st' = [fd_st EXCEPT !.last_discord_id =
                    IF fd_max_seen # 0 THEN fd_max_seen ELSE @]
    /\ fd_pc' = "done"
    /\ UNCHANGED <<fd_msgs, fd_batch, fd_max_seen, fd_origin, fd_chosen, fd_attempted,
                   fd_now, OtherThanFeed>>

NextFeed == FeedTick \/ FeedIngest \/ FeedSelect \/ FeedPlace \/ FeedCursor

InitSpecFeed ==
    /\ InitLifeIdle /\ InitHashIdle /\ InitSaveIdle /\ InitIntake /\ InitDcaIdle
    /\ InitScoreIdle /\ InitStaleIdle /\ InitStoreIdle /\ InitSplitsIdle /\ InitWsIdle
    /\ InitParseIdle /\ InitLegsIdle /\ InitSluIdle
    /\ InitFeed

SpecFeed == InitSpecFeed /\ [][NextFeed]_vars

\* The id of the message the signal was parsed from.
OriginOf(sig) ==
    fd_origin[CHOOSE k \in DOMAIN fd_origin : fd_origin[k].sig = sig].mid

\* The signal a stored trade was opened for.
SignalOf(tr) ==
    CHOOSE k \in DOMAIN fd_origin :
        /\ fd_origin[k].sig.symbol = tr.symbol
        /\ fd_origin[k].sig.trigger = tr.trigger

\* C37: the message id linked to a stored trade is the id of the message its
\* signal was parsed from, never 0 and never another signal's.
C37_LinkedMessageIsOrigin ==
    \A id \in DOMAIN fd_st.open_trades :
        LET tr == fd_st.open_trades[id]
        IN  /\ tr.discord_msg_id # 0
            /\ tr.discord_msg_id = fd_origin[SignalOf(tr)].mid

\* C38: when the cycle is over, every signal handed to the execute loop has
\* had its entry placement attempted, or is neither in seen_signal_hashes
\* nor behind the cursor.
C38_NoSignalLost ==
    fd_pc = "done" =>
        \A i \in DOMAIN fd_chosen :
            \/ fd_chosen[i] \in fd_attempted
            \/ /\ signal_hash(parser_version, fd_chosen[i]) \notin fd_st.seen_signal_hashes
               /\ fd_st.last_discord_id < OriginOf(fd_chosen[i])

====
